---- MODULE Spec2Model ----
(***************************************************************************)
(* A model of the `blue` modal text editor: the Editor aggregate of        *)
(* src/main.rs (selection, modes, command line, scroll, status message,    *)
(* exit code), the grapheme navigation of src/graphemes.rs, the event      *)
(* dispatcher `update`, and the command interpreter `execute_command` of   *)
(* both src/main.rs and src/editor.rs.                                     *)
(*                                                                         *)
(* Representation.  A rope is a sequence of bytes; a byte is a short       *)
(* string.  The alphabet holds the UTF-8 encodings of four characters:     *)
(*   "a"            U+0061, one byte, one column                           *)
(*   "\n"           U+000A, one byte, the line break                       *)
(*   "cc" "81"      U+0301 COMBINING ACUTE ACCENT, two bytes, extends the  *)
(*                  grapheme cluster before it (UAX #29 rule GB9)          *)
(*   "e4" "b8" "96" U+4E16, three bytes, two columns                       *)
(* The command line is a rope of one-byte characters.  An Option is a      *)
(* sequence of length at most one: None is << >>, Some(x) is <<x>>.        *)
(***************************************************************************)
EXTENDS Integers, Sequences, FiniteSets, TLC

None == << >>
Some(x) == <<x>>
IsSome(o) == o # << >>
Unwrap(o) == o[1]

Min(a, b) == IF a <= b THEN a ELSE b
Max(a, b) == IF a >= b THEN a ELSE b
SaturatingSub(a, b) == IF a >= b THEN a - b ELSE 0

(***************************************************************************)
(* Bounds of the model.                                                    *)
(***************************************************************************)
\* Largest buffer, in bytes, that Insert mode is allowed to build.
MaxLen == 3
\* Longest command line typed in the editing specification Spec.
MaxEditCmdLen == 1
\* Longest command line typed in the command-line specification SpecCmd.
MaxCmdLen == 4
\* The terminal: TermWidth columns by TermHeight rows.
TermWidth == 6
TermHeight == 4

(***************************************************************************)
(* Characters and their UTF-8 encodings.                                   *)
(***************************************************************************)
Acute == <<"cc", "81">>
Wide == <<"e4", "b8", "96">>
ContinuationBytes == {"81", "b8", "96"}

\* A byte that starts a character (str::is_char_boundary at a byte).
IsCharStart(b) == b \notin ContinuationBytes

(***************************************************************************)
(* The text-storage collaborator (crop::Rope), by what its queries return. *)
(***************************************************************************)
ByteLen(t) == Len(t)

ByteSlice(t, from, to) == SubSeq(t, from + 1, to)

RopeInsert(t, off, s) == SubSeq(t, 1, off) \o s \o SubSeq(t, off + 1, Len(t))

RopeDelete(t, start, end) == SubSeq(t, 1, start) \o SubSeq(t, end + 1, Len(t))

\* Rope::is_grapheme_boundary for an offset in 0..byte_len: UAX #29 over the
\* alphabet.  Both ends are boundaries (GB1, GB2); no boundary inside a
\* character; none before an Extend character (GB9) unless it follows a
\* line break (GB4); a boundary everywhere else (GB999).
IsGraphemeBoundary(t, off) ==
    \/ off = 0
    \/ off = Len(t)
    \/ /\ off > 0
       /\ off < Len(t)
       /\ IsCharStart(t[off + 1])
       /\ (t[off + 1] = "cc" => t[off] = "\n")

\* Number of line breaks in the first off bytes.
RECURSIVE LineBreaks(_, _)
LineBreaks(t, off) ==
    IF off = 0 THEN 0
    ELSE LineBreaks(t, off - 1) + (IF t[off] = "\n" THEN 1 ELSE 0)

\* Rope::line_len: a trailing line break does not open another line.
LineLen(t) ==
    LineBreaks(t, Len(t)) + (IF Len(t) > 0 /\ t[Len(t)] # "\n" THEN 1 ELSE 0)

\* Rope::line_of_byte, for an offset in 0..byte_len.
LineOfByte(t, off) == LineBreaks(t, off)

\* Rope::byte_of_line, for a line in 0..line_len: the offset just after the
\* line-th line break, the byte length when there is none.
RECURSIVE ByteOfLineFrom(_, _, _)
ByteOfLineFrom(t, line, off) ==
    IF line = 0 THEN off
    ELSE IF off >= Len(t) THEN Len(t)
    ELSE ByteOfLineFrom(t, IF t[off + 1] = "\n" THEN line - 1 ELSE line, off + 1)

ByteOfLine(t, line) == ByteOfLineFrom(t, line, 0)

\* End of the line starting at off, its line break excluded.
RECURSIVE LineEndFrom(_, _)
LineEndFrom(t, off) ==
    IF off >= Len(t) \/ t[off + 1] = "\n" THEN off ELSE LineEndFrom(t, off + 1)

\* Rope::line, for a line in 0..line_len-1: the line without its break.
Line(t, line) == ByteSlice(t, ByteOfLine(t, line), LineEndFrom(t, ByteOfLine(t, line)))

\* RopeSlice::graphemes: the slice cut at its own grapheme boundaries.
RECURSIVE FirstBoundaryAfter(_, _)
FirstBoundaryAfter(s, off) ==
    IF IsGraphemeBoundary(s, off + 1) THEN off + 1 ELSE FirstBoundaryAfter(s, off + 1)

RECURSIVE Graphemes(_)
Graphemes(s) ==
    IF s = << >> THEN << >>
    ELSE LET n == FirstBoundaryAfter(s, 0)
         IN  <<SubSeq(s, 1, n)>> \o Graphemes(SubSeq(s, n + 1, Len(s)))

(***************************************************************************)
(* The display-width collaborator: columns of a grapheme cluster (those of *)
(* its first character) and of a slice (the sum over its clusters).        *)
(***************************************************************************)
Letters == {"a", "b", "c", "d", "e"}

GraphemeWidth(g) ==
    IF g[1] \in Letters THEN 1 ELSE IF g[1] = "e4" THEN 2 ELSE 0

RECURSIVE SumWidths(_)
SumWidths(gs) ==
    IF gs = << >> THEN 0 ELSE GraphemeWidth(Head(gs)) + SumWidths(Tail(gs))

DisplayWidth(s) == SumWidths(Graphemes(s))

(***************************************************************************)
(* src/graphemes.rs                                                        *)
(***************************************************************************)
RECURSIVE PrevScan(_, _)
PrevScan(t, off) ==
    IF IsGraphemeBoundary(t, off - 1) THEN off - 1 ELSE PrevScan(t, off - 1)

prev_grapheme_boundary(t, off) ==
    IF off = 0 THEN None
    ELSE IF off > ByteLen(t) THEN Some(ByteLen(t))
    ELSE Some(PrevScan(t, off))

\* A step forward of one byte, not of one grapheme.
NextByte(t, off) ==
    IF off >= ByteLen(t) THEN None ELSE Some(off + 1)

RECURSIVE NextScan(_, _)
NextScan(t, off) ==
    IF IsGraphemeBoundary(t, off + 1) THEN off + 1 ELSE NextScan(t, off + 1)

next_grapheme_boundary(t, off) ==
    IF off >= ByteLen(t) THEN None ELSE Some(NextScan(t, off))

\* A floor that steps back even from a boundary.
FloorAlwaysBack(t, off) ==
    IF off > ByteLen(t) THEN ByteLen(t)
    ELSE IF off = 0 THEN 0
    ELSE Unwrap(prev_grapheme_boundary(t, off))

floor_grapheme_boundary(t, off) ==
    IF off > ByteLen(t) THEN ByteLen(t)
    ELSE IF IsGraphemeBoundary(t, off) THEN off
    ELSE Unwrap(prev_grapheme_boundary(t, off))

ceil_grapheme_boundary(t, off) ==
    IF off > ByteLen(t) THEN ByteLen(t)
    ELSE IF IsGraphemeBoundary(t, off) THEN off
    ELSE Unwrap(next_grapheme_boundary(t, off))

(***************************************************************************)
(* Control flow of a method: a panic ends the process, an Err returned     *)
(* through `?` ends it with a fatal error; either way the rest is skipped. *)
(* An editor value e is a record of the Editor's fields, together with     *)
(*   run              "loop" while the event loop runs, "panic", "error"   *)
(*   debug_assertions whether debug_assert! is compiled in (the profile)   *)
(*   disk             the content of the file at `path`, None if absent    *)
(*   confirmed        the command line run by the event just handled       *)
(* The variable law stands outside the editor value: it holds the inputs   *)
(* and results of the operations applied when a law of the operations is   *)
(* examined, and is None while the editor is driven by events.             *)
(***************************************************************************)
Panic(e) == [e EXCEPT !.run = "panic"]

Then(e, F(_)) == IF e.run = "loop" THEN F(e) ELSE e

\* debug_assert!(cond)
DebugAssert(e, cond) == IF e.debug_assertions /\ ~cond THEN Panic(e) ELSE e

\* Rope::is_grapheme_boundary panics on an offset past the end, so an
\* assertion on such an offset fails as well.
BoundaryOk(t, off) == off <= ByteLen(t) /\ IsGraphemeBoundary(t, off)

(***************************************************************************)
(* src/main.rs: impl Editor                                                *)
(***************************************************************************)
is_forward(e) == e.anchor <= e.head

is_backward(e) == ~is_forward(e)

flip(e) == [e EXCEPT !.anchor = e.head, !.head = e.anchor]

\* A flip_forward that flips whatever the orientation.
FlipAlways(e) == flip(e)

flip_forward(e) == IF ~is_forward(e) THEN flip(e) ELSE e

reduce(e) == [e EXCEPT !.anchor = e.head]

RECURSIVE ExtendLeftLoop(_, _)
ExtendLeftLoop(e, count) ==
    IF count = 0 THEN e
    ELSE LET prev == prev_grapheme_boundary(e.text, e.head)
         IN  IF IsSome(prev) /\ e.head # Unwrap(prev)
             THEN ExtendLeftLoop([e EXCEPT !.head = Unwrap(prev)], count - 1)
             ELSE e

extend_left(e, count) ==
    Then(DebugAssert(e, BoundaryOk(e.text, e.head)),
         LAMBDA a : [ExtendLeftLoop(a, count) EXCEPT !.desired_column = None])

RECURSIVE ExtendRightLoop(_, _)
ExtendRightLoop(e, count) ==
    IF count = 0 THEN e
    ELSE LET next == next_grapheme_boundary(e.text, e.head)
         IN  IF IsSome(next) /\ e.head # Unwrap(next)
             THEN ExtendRightLoop([e EXCEPT !.head = Unwrap(next)], count - 1)
             ELSE e

extend_right(e, count) ==
    Then(DebugAssert(e, BoundaryOk(e.text, e.head)),
         LAMBDA a : [ExtendRightLoop(a, count) EXCEPT !.desired_column = None])

\* A walk that rounds up: it takes the grapheme that straddles the limit.
RECURSIVE WalkColumnsRounding(_, _, _, _)
WalkColumnsRounding(gs, col, off, limit) ==
    IF gs = << >> THEN off
    ELSE IF col >= limit THEN off
    ELSE WalkColumnsRounding(Tail(gs), col + GraphemeWidth(Head(gs)),
                             off + Len(Head(gs)), limit)

\* The inner loop of extend_up / extend_down and of position_to_byte_offset:
\* walk the graphemes gs from byte offset off at column col, stopping before
\* the first one that would pass the column limit.
RECURSIVE WalkColumns(_, _, _, _)
WalkColumns(gs, col, off, limit) ==
    IF gs = << >> THEN off
    ELSE IF col + GraphemeWidth(Head(gs)) > limit THEN off
    ELSE WalkColumns(Tail(gs), col + GraphemeWidth(Head(gs)),
                     off + Len(Head(gs)), limit)

\* self.desired_column.unwrap_or_else(|| width of the line up to head)
DesiredColumn(e, current_line_byte_index) ==
    IF IsSome(e.desired_column) THEN Unwrap(e.desired_column)
    ELSE DisplayWidth(ByteSlice(e.text, current_line_byte_index, e.head))

RECURSIVE extend_up(_, _)
extend_up(e, count) ==
    IF count = 0 THEN e
    ELSE LET current_line_index == LineOfByte(e.text, e.head)
         IN  IF current_line_index = 0 THEN e
             ELSE LET target_line_index == current_line_index - 1
                      desired == DesiredColumn(e, ByteOfLine(e.text, current_line_index))
                      byte_offset ==
                          WalkColumns(Graphemes(Line(e.text, target_line_index)), 0,
                                      ByteOfLine(e.text, target_line_index), desired)
                  IN  extend_up([e EXCEPT !.desired_column = Some(desired),
                                          !.head = byte_offset], count - 1)

RECURSIVE extend_down(_, _)
extend_down(e, count) ==
    IF count = 0 THEN e
    ELSE LET current_line_index == LineOfByte(e.text, e.head)
             target_line_index == current_line_index + 1
         IN  IF target_line_index >= LineLen(e.text)
             THEN [e EXCEPT !.head = ByteLen(e.text)]
             ELSE LET desired == DesiredColumn(e, ByteOfLine(e.text, current_line_index))
                      byte_offset ==
                          WalkColumns(Graphemes(Line(e.text, target_line_index)), 0,
                                      ByteOfLine(e.text, target_line_index), desired)
                  IN  extend_down([e EXCEPT !.desired_column = Some(desired),
                                            !.head = byte_offset], count - 1)

extend_line_start(e) ==
    [e EXCEPT !.head = ByteOfLine(e.text, LineOfByte(e.text, e.head))]

\* Rope::line panics ("line index out of bounds") on a line index that is
\* not below line_len: head at the end of an empty buffer or of one that
\* ends with a line break.
extend_line_end(e) ==
    LET line_index == LineOfByte(e.text, e.head)
        line_start_byte_index == ByteOfLine(e.text, line_index)
    IN  IF line_index >= LineLen(e.text) THEN Panic(e)
        ELSE [e EXCEPT !.head = line_start_byte_index
                                  + ByteLen(Line(e.text, line_index))]

move_left(e, count) == Then(extend_left(e, count), reduce)

move_right(e, count) == Then(extend_right(e, count), reduce)

\* A move_up that forgets the cached column and takes the head's own.
MoveUpFromOwnColumn(e, count) ==
    reduce(extend_up([e EXCEPT !.desired_column = None], count))

move_up(e, count) == reduce(extend_up(e, count))

move_down(e, count) == reduce(extend_down(e, count))

move_line_start(e) == reduce(extend_line_start(e))

move_line_end(e) == Then(extend_line_end(e), reduce)

scroll_up(e, distance) ==
    Then(DebugAssert(e, e.vertical_scroll < LineLen(e.text)),
         LAMBDA a : [a EXCEPT !.vertical_scroll =
                                  SaturatingSub(a.vertical_scroll, distance)])

scroll_down(e, distance) ==
    Then(DebugAssert(e, e.vertical_scroll < LineLen(e.text)),
         LAMBDA a : [a EXCEPT !.vertical_scroll =
                                  Min(SaturatingSub(LineLen(a.text), 1),
                                      a.vertical_scroll + distance)])

\* The two assertions that end delete_before, delete and delete_after.
AssertSelectionOnBoundaries(e) ==
    Then(DebugAssert(e, BoundaryOk(e.text, e.anchor)),
         LAMBDA a : DebugAssert(a, BoundaryOk(a.text, a.head)))

\* An insert that does not mark the buffer as modified.
InsertUnmarked(e, s) ==
    LET inserted == [e EXCEPT !.text = RopeInsert(e.text, e.head, s),
                              !.head = e.head + Len(s)]
    IN  reduce(inserted)

insert(e, s) ==
    LET inserted == [e EXCEPT !.text = RopeInsert(e.text, e.head, s),
                              !.head = e.head + Len(s)]
    IN  [reduce(inserted) EXCEPT !.modified = TRUE]

\* A delete_before that takes one byte, not one grapheme.
DeleteByteBefore(e) ==
    IF e.head = 0 THEN e
    ELSE AssertSelectionOnBoundaries(
             [reduce([e EXCEPT !.text = RopeDelete(e.text, e.head - 1, e.head),
                               !.head = e.head - 1])
                EXCEPT !.modified = TRUE])

delete_before(e) ==
    LET gs == Graphemes(ByteSlice(e.text, 0, e.head))
    IN  IF gs = << >> THEN e
        ELSE LET start == e.head - Len(gs[Len(gs)])
                 end == e.head
                 deleted == [e EXCEPT !.text = RopeDelete(e.text, start, end),
                                      !.head = start]
             IN  AssertSelectionOnBoundaries(
                     [reduce(deleted) EXCEPT !.modified = TRUE])

\* A delete that takes the grapheme at the far end of the selection too.
DeleteInclusive(e) ==
    LET start == Min(e.anchor, e.head)
        end == ceil_grapheme_boundary(e.text, Max(e.anchor, e.head) + 1)
    IN  AssertSelectionOnBoundaries(
            [e EXCEPT !.text = RopeDelete(e.text, start, end),
                      !.head = start,
                      !.anchor = start,
                      !.modified = TRUE])

\* A delete that takes the anchor for the start of the selection.
DeleteFromAnchor(e) ==
    LET start == e.anchor
        end == Max(e.anchor, e.head)
    IN  AssertSelectionOnBoundaries(
            [e EXCEPT !.text = RopeDelete(e.text, start, end),
                      !.head = Min(e.anchor, e.head),
                      !.anchor = Min(e.anchor, e.head),
                      !.modified = TRUE])

delete(e) ==
    LET start == Min(e.anchor, e.head)
        end == Max(e.anchor, e.head)
    IN  AssertSelectionOnBoundaries(
            [e EXCEPT !.text = RopeDelete(e.text, start, end),
                      !.head = start,
                      !.anchor = start,
                      !.modified = TRUE])

delete_after(e) ==
    LET gs == Graphemes(ByteSlice(e.text, e.head, ByteLen(e.text)))
    IN  IF gs = << >> THEN e
        ELSE LET start == e.head
                 end == start + Len(gs[1])
             IN  AssertSelectionOnBoundaries(
                     [e EXCEPT !.text = RopeDelete(e.text, start, end),
                               !.modified = TRUE])

RECURSIVE CommandMoveLeftLoop(_, _)
CommandMoveLeftLoop(e, count) ==
    IF count = 0 THEN e
    ELSE LET prev == prev_grapheme_boundary(e.command, e.command_cursor)
         IN  IF IsSome(prev) /\ e.command_cursor # Unwrap(prev)
             THEN CommandMoveLeftLoop([e EXCEPT !.command_cursor = Unwrap(prev)],
                                      count - 1)
             ELSE e

command_mode_move_left(e, count) ==
    Then(Then(DebugAssert(e, e.mode = "Command"),
              LAMBDA a : DebugAssert(a, BoundaryOk(a.command, a.command_cursor))),
         LAMBDA a : CommandMoveLeftLoop(a, count))

RECURSIVE CommandMoveRightLoop(_, _)
CommandMoveRightLoop(e, count) ==
    IF count = 0 THEN e
    ELSE LET next == next_grapheme_boundary(e.command, e.command_cursor)
         IN  IF IsSome(next) /\ e.command_cursor # Unwrap(next)
             THEN CommandMoveRightLoop([e EXCEPT !.command_cursor = Unwrap(next)],
                                       count - 1)
             ELSE e

command_mode_move_right(e, count) ==
    Then(Then(DebugAssert(e, e.mode = "Command"),
              LAMBDA a : DebugAssert(a, BoundaryOk(a.command, a.command_cursor))),
         LAMBDA a : CommandMoveRightLoop(a, count))

(***************************************************************************)
(* Persistence.  fs::write either succeeds or fails; the outcome io is an  *)
(* input of the step:                                                      *)
(*   "ok"               the file now holds the buffer                      *)
(*   "failed"           the file could not be opened: it is as before      *)
(*   "failed_truncated" the file was created or truncated, then the write  *)
(*                      failed: it is left empty                           *)
(***************************************************************************)
IoOutcomes == {"ok", "failed", "failed_truncated"}

\* A save that marks the buffer saved although the write failed.
SaveMarksSavedOnFailure(e, io) ==
    IF IsSome(e.path)
    THEN IF io = "ok"
         THEN [e EXCEPT !.disk = Some(e.text), !.modified = FALSE]
         ELSE [e EXCEPT !.disk = IF io = "failed" THEN e.disk ELSE Some(<< >>),
                        !.modified = FALSE, !.run = "error"]
    ELSE e

\* Editor::save.  `?` on the failed write returns the error to the caller.
save(e, io) ==
    IF IsSome(e.path)
    THEN IF io = "ok"
         THEN [e EXCEPT !.disk = Some(e.text), !.modified = FALSE]
         ELSE [e EXCEPT !.disk = IF io = "failed" THEN e.disk ELSE Some(<< >>),
                        !.run = "error"]
    ELSE e

(***************************************************************************)
(* Strings.  A command line and a token are sequences of one-character     *)
(* strings; a status message is a string.                                  *)
(***************************************************************************)
\* Rope::to_string / String from characters.
RECURSIVE Str(_)
Str(cs) == IF cs = << >> THEN "" ELSE Head(cs) \o Str(Tail(cs))

\* [String]::join(sep)
RECURSIVE Join(_, _)
Join(strs, sep) ==
    IF strs = << >> THEN ""
    ELSE IF Len(strs) = 1 THEN strs[1]
    ELSE strs[1] \o sep \o Join(Tail(strs), sep)

(***************************************************************************)
(* shellwords::split over the characters of the model: blanks separate     *)
(* words, a double-quoted stretch is taken literally (blanks included) and *)
(* joins the word around it, a quote that is never closed is an error.     *)
(* None is Err(MismatchedQuotes), Some(words) is Ok(words).                *)
(***************************************************************************)
RECURSIVE SkipBlanks(_, _)
SkipBlanks(s, i) == IF i <= Len(s) /\ s[i] = " " THEN SkipBlanks(s, i + 1) ELSE i

\* Index of the first double quote at or after i, 0 when there is none.
RECURSIVE FindQuote(_, _)
FindQuote(s, i) ==
    IF i > Len(s) THEN 0 ELSE IF s[i] = "\"" THEN i ELSE FindQuote(s, i + 1)

\* Index just after the run of plain characters that starts at i.
RECURSIVE WordEnd(_, _)
WordEnd(s, i) ==
    IF i <= Len(s) /\ s[i] \notin {" ", "\""} THEN WordEnd(s, i + 1) ELSE i

RECURSIVE SplitFrom(_, _, _, _)
SplitFrom(s, i, field, words) ==
    LET j == SkipBlanks(s, i)
        \* After one piece of a word ends at k: a blank or the end of the
        \* input closes the word.
        After(k, piece) ==
            IF k > Len(s) \/ s[k] = " "
            THEN SplitFrom(s, k + 1, << >>, Append(words, field \o piece))
            ELSE SplitFrom(s, k, field \o piece, words)
    IN  IF j > Len(s) THEN Some(words)
        ELSE IF s[j] = "\""
        THEN LET close == FindQuote(s, j + 1)
             IN  IF close = 0 THEN None
                 ELSE After(close + 1, SubSeq(s, j + 1, close - 1))
        ELSE After(WordEnd(s, j), SubSeq(s, j, WordEnd(s, j) - 1))

shellwords_split(s) == SplitFrom(s, 1, << >>, << >>)

(***************************************************************************)
(* clap: Command::try_parse_from(["blue"] ++ args) for the derived parser  *)
(* of execute_command.  Ok is [ok |-> TRUE, verb, ...]; Err is             *)
(* [ok |-> FALSE, prefixed, lines]: the rendered error is "error: " (when  *)
(* prefixed) followed by the lines, each ended by a line break.            *)
(***************************************************************************)
Digits == {"0", "1", "2", "3", "4", "5", "6", "7", "8", "9"}

DigitValue(d) ==
    CASE d = "0" -> 0 [] d = "1" -> 1 [] d = "2" -> 2 [] d = "3" -> 3
      [] d = "4" -> 4 [] d = "5" -> 5 [] d = "6" -> 6 [] d = "7" -> 7
      [] d = "8" -> 8 [] d = "9" -> 9

RECURSIVE Decimal(_, _)
Decimal(tok, acc) ==
    IF tok = << >> THEN acc ELSE Decimal(Tail(tok), 10 * acc + DigitValue(Head(tok)))

\* The largest u8.
U8Max == 255

IsDecimal(tok) == tok # << >> /\ (\A i \in 1..Len(tok) : tok[i] \in Digits)

\* The value parser of a u8 argument: None unless the token is a decimal in
\* 0..=255.
ParseU8(tok) ==
    IF IsDecimal(tok) /\ Decimal(tok, 0) <= U8Max
    THEN Some(Decimal(tok, 0))
    ELSE None

HelpHint == <<"", "For more information, try '--help'.">>

ClapError(first, usage) ==
    [ok |-> FALSE, prefixed |-> TRUE,
     lines |-> <<first, "", "Usage: blue " \o usage>> \o HelpHint]

\* What clap prints instead of parsing: the help text, with no "error: ".
ClapHelp ==
    [ok |-> FALSE, prefixed |-> FALSE,
     lines |-> <<"Usage: blue <COMMAND>", "", "Commands:",
                 "  echo", "  write", "  quit", "  quit!", "  write-quit",
                 "  help        Print this message or the help of the given subcommand(s)">>]

Unexpected(tok, usage) ==
    ClapError("unexpected argument '" \o Str(tok) \o "' found", usage)

\* Quit, QuitForce, WriteQuit { exit_code: Option<u8> }
ParseExitCode(verb, rest, usage) ==
    IF rest = << >> THEN [ok |-> TRUE, verb |-> verb, exit_code |-> None]
    ELSE IF rest[1] # << >> /\ rest[1][1] = "-" THEN Unexpected(rest[1], usage)
    ELSE IF ~IsSome(ParseU8(rest[1]))
    THEN [ok |-> FALSE, prefixed |-> TRUE,
          lines |-> <<"invalid value '" \o Str(rest[1]) \o "' for '[EXIT_CODE]': "
                      \o (IF IsDecimal(rest[1])
                          THEN Str(rest[1]) \o " is not in 0..=255"
                          ELSE "invalid digit found in string")>>
                    \o HelpHint]
    ELSE IF Len(rest) > 1 THEN Unexpected(rest[2], usage)
    ELSE [ok |-> TRUE, verb |-> verb, exit_code |-> ParseU8(rest[1])]

\* Echo { #[clap(long)] error: bool, message: Vec<String> }
RECURSIVE ParseEcho(_, _, _)
ParseEcho(rest, error, words) ==
    IF rest = << >> THEN [ok |-> TRUE, verb |-> "Echo", error |-> error, message |-> words]
    ELSE IF Str(Head(rest)) = "--error"
    THEN IF error
         THEN ClapError("the argument '--error' cannot be used multiple times",
                        "echo [OPTIONS] [MESSAGE]...")
         ELSE ParseEcho(Tail(rest), TRUE, words)
    ELSE IF Head(rest) # << >> /\ Head(rest)[1] = "-"
    THEN Unexpected(Head(rest), "echo [OPTIONS] [MESSAGE]...")
    ELSE ParseEcho(Tail(rest), error, Append(words, Str(Head(rest))))

\* help_enabled: the built-in help subcommand and flags, which editor.rs
\* disables (disable_help_subcommand, disable_help_flag).
clap_try_parse(args, help_enabled) ==
    IF args = << >> THEN ClapHelp
    ELSE LET verb == Str(args[1])
             rest == Tail(args)
         IN  CASE verb = "echo" -> ParseEcho(rest, FALSE, << >>)
               [] verb \in {"write", "w"} ->
                    IF rest = << >> THEN [ok |-> TRUE, verb |-> "Write"]
                    ELSE Unexpected(rest[1], "write")
               [] verb \in {"quit", "q"} ->
                    ParseExitCode("Quit", rest, "quit [EXIT_CODE]")
               [] verb \in {"quit!", "q!"} ->
                    ParseExitCode("QuitForce", rest, "quit! [EXIT_CODE]")
               [] verb \in {"write-quit", "wq"} ->
                    ParseExitCode("WriteQuit", rest, "write-quit [EXIT_CODE]")
               [] help_enabled /\ verb \in {"help", "--help", "-h"} -> ClapHelp
               [] OTHER ->
                    IF args[1] # << >> /\ args[1][1] = "-"
                    THEN Unexpected(args[1], "<COMMAND>")
                    ELSE ClapError("unrecognized subcommand '" \o verb \o "'",
                                   "<COMMAND>")

\* error.to_string() with the prefix "error: " stripped when it is there:
\* every line of the rendered error is kept.
StripErrorPrefix(err) == Join(err.lines, "\n") \o "\n"

\* ....lines().next().unwrap_or("")
FirstLine(err) == IF err.lines = << >> THEN "" ELSE err.lines[1]

Ok(x) == [ok |-> TRUE, text |-> x]
Err(x) == [ok |-> FALSE, text |-> x]

(***************************************************************************)
(* execute_command                                                         *)
(***************************************************************************)
\* Leaving Command mode with the command line kept.
LeaveKeepingLine(e) == [e EXCEPT !.mode = "Normal"]

\* self.command = Rope::new(); self.command_cursor = 0; self.mode = Normal
LeaveCommandMode(e) ==
    [e EXCEPT !.command = << >>, !.command_cursor = 0, !.mode = "Normal"]

ExitCodeOf(cmd) == IF IsSome(cmd.exit_code) THEN cmd.exit_code ELSE Some(0)

\* An echo that joins its words with nothing between them.
RunEchoUnspaced(e, cmd) ==
    [e EXCEPT !.message = IF cmd.error
                          THEN Some(Err(Join(cmd.message, "")))
                          ELSE Some(Ok(Join(cmd.message, "")))]

\* Command::Echo { error, message }
RunEcho(e, cmd) ==
    [e EXCEPT !.message = IF cmd.error
                          THEN Some(Err(Join(cmd.message, " ")))
                          ELSE Some(Ok(Join(cmd.message, " ")))]

\* A quit that does not look at the modified flag.
RunQuitUnguarded(e, cmd) == [e EXCEPT !.exit_code = ExitCodeOf(cmd)]

\* Command::Quit { exit_code }
RunQuit(e, cmd) ==
    IF e.modified
    THEN [e EXCEPT !.message = Some(Err("Unsaved changes"))]
    ELSE [e EXCEPT !.exit_code = ExitCodeOf(cmd)]

\* A quit! that refuses, like quit, to leave a modified buffer.
RunQuitForceGuarded(e, cmd) ==
    IF e.modified
    THEN [e EXCEPT !.message = Some(Err("Unsaved changes"))]
    ELSE [e EXCEPT !.exit_code = ExitCodeOf(cmd)]

\* Command::QuitForce { exit_code }
RunQuitForce(e, cmd) == [e EXCEPT !.exit_code = ExitCodeOf(cmd)]

\* A write-quit that sets the exit code without writing.
RunWriteQuitUnsaved(e, cmd, io) == [e EXCEPT !.exit_code = ExitCodeOf(cmd)]

\* Command::WriteQuit { exit_code }: `?` after save returns its error
\* before the exit code is set.
RunWriteQuit(e, cmd, io) ==
    Then(save(e, io), LAMBDA a : [a EXCEPT !.exit_code = ExitCodeOf(cmd)])

\* The match on the parsed command and the lines after it, the same in
\* src/main.rs and src/editor.rs.  An error returned through `?` leaves
\* the function before the command line is cleared.
RunCommand(e, cmd, io) ==
    Then(CASE cmd.verb = "Echo" -> RunEcho(e, cmd)
           [] cmd.verb = "Write" -> save(e, io)
           [] cmd.verb = "Quit" -> RunQuit(e, cmd)
           [] cmd.verb = "QuitForce" -> RunQuitForce(e, cmd)
           [] cmd.verb = "WriteQuit" -> RunWriteQuit(e, cmd, io),
         LeaveCommandMode)

\* src/main.rs, Editor::execute_command
execute_command(e, io) ==
    LET args == shellwords_split(e.command)
        c == [e EXCEPT !.confirmed = Some([line |-> e.command, by |-> "main"])]
    IN  IF ~IsSome(args)
        THEN LeaveCommandMode([c EXCEPT !.message = Some(Err("Invalid command"))])
        ELSE LET parsed == clap_try_parse(Unwrap(args), TRUE)
             IN  IF ~parsed.ok
                 THEN LeaveCommandMode(
                          [c EXCEPT !.message = Some(Err(StripErrorPrefix(parsed)))])
                 ELSE RunCommand(c, parsed, io)

\* src/editor.rs, Editor::execute_command
lib_execute_command(e, io) ==
    LET args == shellwords_split(e.command)
        c == [e EXCEPT !.confirmed = Some([line |-> e.command, by |-> "editor"])]
    IN  IF ~IsSome(args)
        THEN LeaveCommandMode([c EXCEPT !.message = Some(Err("Invalid command"))])
        ELSE IF Unwrap(args) = << >>
        THEN LeaveCommandMode(c)
        ELSE LET parsed == clap_try_parse(Unwrap(args), FALSE)
             IN  IF ~parsed.ok
                 THEN LeaveCommandMode(
                          [c EXCEPT !.message = Some(Err(FirstLine(parsed)))])
                 ELSE RunCommand(c, parsed, io)

(***************************************************************************)
(* Screen layout and pointer mapping (src/main.rs)                         *)
(***************************************************************************)
\* u32::ilog10 for n >= 1
RECURSIVE Ilog10(_)
Ilog10(n) == IF n < 10 THEN 0 ELSE 1 + Ilog10(n \div 10)

\* Areas::new: the status bar is the first row; below it the line numbers
\* take line_numbers_width columns and the text takes the rest.
Areas(t, area) ==
    LET digits == 1 + Ilog10(Max(1, LineLen(t)))
        line_numbers_width == Min(Max(2, digits) + 1, area.width)
        main_height == SaturatingSub(area.height, 1)
    IN  [status_bar |-> [x |-> area.x, y |-> area.y,
                         width |-> area.width, height |-> Min(1, area.height)],
         line_numbers |-> [x |-> area.x, y |-> area.y + 1,
                           width |-> line_numbers_width, height |-> main_height],
         text |-> [x |-> area.x + line_numbers_width, y |-> area.y + 1,
                   width |-> area.width - line_numbers_width,
                   height |-> main_height]]

\* Rect::contains
RectContains(r, pos) ==
    /\ pos.x >= r.x /\ pos.x < r.x + r.width
    /\ pos.y >= r.y /\ pos.y < r.y + r.height

\* A position mapping that steps over the grapheme under the pointer.
PositionPastCell(t, vertical_scroll, area, pos) ==
    IF ~RectContains(area, pos) THEN None
    ELSE LET target_column == (pos.x - area.x) + 1
             row == (pos.y - area.y) + vertical_scroll
         IN  IF row >= LineLen(t) THEN Some(ByteLen(t))
             ELSE Some(WalkColumns(Graphemes(Line(t, row)), 0,
                                   ByteOfLine(t, row), target_column))

position_to_byte_offset(t, vertical_scroll, area, pos) ==
    IF ~RectContains(area, pos) THEN None
    ELSE LET target_column == pos.x - area.x
             row == (pos.y - area.y) + vertical_scroll
         IN  IF row >= LineLen(t) THEN Some(ByteLen(t))
             ELSE Some(WalkColumns(Graphemes(Line(t, row)), 0,
                                   ByteOfLine(t, row), target_column))

\* A cell mapping that gives every cell one column.
CellOneColumnWide(t, vertical_scroll, area, offset) ==
    IF offset > ByteLen(t) THEN None
    ELSE LET line_offset == LineOfByte(t, offset)
             y == area.y + (line_offset - vertical_scroll)
             line_byte_offset == ByteOfLine(t, line_offset)
             byte_offset == floor_grapheme_boundary(t, offset)
             prefix_width == DisplayWidth(ByteSlice(t, line_byte_offset, byte_offset))
             x == area.x + prefix_width
             width == 1
         IN  IF vertical_scroll > line_offset THEN None
             ELSE IF ~(y >= area.y /\ y < area.y + area.height) THEN None
             ELSE IF ~(x >= area.x /\ x < area.x + area.width) THEN None
             ELSE Some([x |-> x, y |-> y, width |-> width, height |-> 1])

\* fn byte_offset_to_area: the cell of a byte offset, None when it is not in
\* the buffer or not in view.
byte_offset_to_area(t, vertical_scroll, area, offset) ==
    IF offset > ByteLen(t) THEN None
    ELSE LET line_offset == LineOfByte(t, offset)
             y == area.y + (line_offset - vertical_scroll)
             line_byte_offset == ByteOfLine(t, line_offset)
             byte_offset == floor_grapheme_boundary(t, offset)
             prefix_width == DisplayWidth(ByteSlice(t, line_byte_offset, byte_offset))
             x == area.x + prefix_width
             width == IF ByteLen(t) = byte_offset THEN 1
                      ELSE GraphemeWidth(
                               Graphemes(ByteSlice(t, byte_offset, ByteLen(t)))[1])
         IN  IF vertical_scroll > line_offset THEN None
             ELSE IF ~(y >= area.y /\ y < area.y + area.height) THEN None
             ELSE IF ~(x >= area.x /\ x < area.x + area.width) THEN None
             ELSE Some([x |-> x, y |-> y, width |-> width, height |-> 1])

(***************************************************************************)
(* Events.  A key is its modifiers and its code; a Char code carries the   *)
(* UTF-8 encoding of the character.                                        *)
(***************************************************************************)
Char(m, c) == [type |-> "Key", mods |-> m, code |-> "Char", ch |-> c]
Code(m, c) == [type |-> "Key", mods |-> m, code |-> c, ch |-> << >>]
MouseEvent(kind, button, column, row) ==
    [type |-> "Mouse", kind |-> kind, button |-> button,
     column |-> column, row |-> row]

IsChar(k, m, c) == k.code = "Char" /\ k.mods = m /\ k.ch = <<c>>
IsCode(k, m, c) == k.code = c /\ k.mods = m

UpdateNormal(e, areas, k) ==
    LET half_height == SaturatingSub(areas.text.height, 1) \div 2
        full_height == SaturatingSub(areas.text.height, 2)
    IN  CASE IsChar(k, "CONTROL", "p") -> Panic(e)
          [] IsChar(k, "NONE", "h") -> move_left(e, 1)
          [] IsChar(k, "NONE", "l") -> move_right(e, 1)
          [] IsChar(k, "NONE", "k") -> move_up(e, 1)
          [] IsChar(k, "NONE", "j") -> move_down(e, 1)
          [] IsChar(k, "SHIFT", "h") \/ IsChar(k, "SHIFT", "H") -> extend_left(e, 1)
          [] IsChar(k, "SHIFT", "l") \/ IsChar(k, "SHIFT", "L") -> extend_right(e, 1)
          [] IsChar(k, "SHIFT", "k") \/ IsChar(k, "SHIFT", "K") -> extend_up(e, 1)
          [] IsChar(k, "SHIFT", "j") \/ IsChar(k, "SHIFT", "J") -> extend_down(e, 1)
          [] IsChar(k, "NONE", ";") -> reduce(e)
          [] IsChar(k, "ALT", ";") -> flip(e)
          [] IsChar(k, "SHIFT|ALT", ";") -> flip_forward(e)
          [] IsChar(k, "NONE", "d") -> delete(e)
          [] IsChar(k, "NONE", "c") ->
               Then(delete(e), LAMBDA a : [a EXCEPT !.mode = "Insert"])
          [] IsChar(k, "NONE", "i") -> [reduce(e) EXCEPT !.mode = "Insert"]
          [] IsChar(k, "NONE", ":") ->
               [e EXCEPT !.command = << >>, !.command_cursor = 0,
                         !.mode = "Command"]
          [] IsChar(k, "CONTROL", "u") -> scroll_up(e, half_height)
          [] IsChar(k, "CONTROL", "d") -> scroll_down(e, half_height)
          [] IsChar(k, "CONTROL", "b") -> scroll_up(e, full_height)
          [] IsChar(k, "CONTROL", "f") -> scroll_down(e, full_height)
          [] IsChar(k, "NONE", "g") -> [e EXCEPT !.mode = "Goto"]
          [] OTHER -> e

ToNormal(e) == [e EXCEPT !.mode = "Normal"]

\* A Goto mode that an unrecognized key does not leave.
UpdateGotoSticky(e, k) ==
    IF \/ k.code = "Char" /\ k.mods = "NONE" /\ k.ch \in {<<"k">>, <<"h">>, <<"l">>}
       \/ k.code = "Char" /\ k.mods = "SHIFT" /\ k.ch \in {<<"H">>, <<"L">>}
    THEN [e EXCEPT !.mode = "Normal"]
    ELSE [e EXCEPT !.message = Some(Err("Unknown key"))]

UpdateGoto(e, k) ==
    CASE IsChar(k, "NONE", "k") ->
           [e EXCEPT !.anchor = 0, !.head = 0, !.desired_column = None,
                     !.mode = "Normal"]
      [] IsChar(k, "NONE", "h") -> ToNormal(move_line_start(e))
      [] IsChar(k, "NONE", "l") -> Then(move_line_end(e), ToNormal)
      [] IsChar(k, "SHIFT", "h") \/ IsChar(k, "SHIFT", "H") ->
           ToNormal(extend_line_start(e))
      [] IsChar(k, "SHIFT", "l") \/ IsChar(k, "SHIFT", "L") ->
           Then(extend_line_end(e), ToNormal)
      [] IsCode(k, "NONE", "Esc") -> ToNormal(e)
      [] OTHER -> [e EXCEPT !.message = Some(Err("Unknown key")),
                            !.mode = "Normal"]

\* An Insert mode that Enter leaves as well.
UpdateInsertEnterLeaves(e, k) ==
    CASE IsChar(k, "CONTROL", "a") -> move_line_start(e)
      [] IsChar(k, "CONTROL", "e") -> move_line_end(e)
      [] IsChar(k, "CONTROL", "b") -> move_left(e, 1)
      [] IsChar(k, "CONTROL", "f") -> move_right(e, 1)
      [] k.code = "Char" /\ k.mods \in {"NONE", "SHIFT"} -> insert(e, k.ch)
      [] IsCode(k, "NONE", "Tab") -> insert(e, <<"\t">>)
      [] IsCode(k, "NONE", "Enter") ->
           [insert(e, <<"\n">>) EXCEPT !.desired_column = None,
                                       !.mode = "Normal"]
      [] IsCode(k, "NONE", "Backspace") -> delete_before(e)
      [] IsCode(k, "NONE", "Esc") -> ToNormal(e)
      [] OTHER -> e

UpdateInsert(e, k) ==
    CASE IsChar(k, "CONTROL", "a") -> move_line_start(e)
      [] IsChar(k, "CONTROL", "e") -> move_line_end(e)
      [] IsChar(k, "CONTROL", "b") -> move_left(e, 1)
      [] IsChar(k, "CONTROL", "f") -> move_right(e, 1)
      [] k.code = "Char" /\ k.mods \in {"NONE", "SHIFT"} -> insert(e, k.ch)
      [] IsCode(k, "NONE", "Tab") -> insert(e, <<"\t">>)
      [] IsCode(k, "NONE", "Enter") ->
           [insert(e, <<"\n">>) EXCEPT !.desired_column = None]
      [] IsCode(k, "NONE", "Backspace") -> delete_before(e)
      [] IsCode(k, "NONE", "Esc") -> ToNormal(e)
      [] OTHER -> e

CommandBackspace(e) ==
    IF e.command_cursor > 0
    THEN Then(DebugAssert(e, e.command # << >>),
              LAMBDA a :
                LET prev == prev_grapheme_boundary(a.command, a.command_cursor)
                IN  IF IsSome(prev)
                    THEN [a EXCEPT !.command = RopeDelete(a.command, Unwrap(prev),
                                                          a.command_cursor),
                                   !.command_cursor = Unwrap(prev)]
                    ELSE a)
    ELSE IF e.command = << >>
    THEN Then(DebugAssert(e, e.command_cursor = 0), LeaveCommandMode)
    ELSE e

\* A Command mode in which Up moves the cursor to the start of the line.
UpdateCommandUpBound(e, k, io) ==
    CASE IsChar(k, "CONTROL", "a") -> [e EXCEPT !.command_cursor = 0]
      [] IsChar(k, "CONTROL", "e") ->
           [e EXCEPT !.command_cursor = ByteLen(e.command)]
      [] IsCode(k, "NONE", "Left") -> command_mode_move_left(e, 1)
      [] IsCode(k, "NONE", "Right") -> command_mode_move_right(e, 1)
      [] IsChar(k, "CONTROL", "b") -> command_mode_move_left(e, 1)
      [] IsChar(k, "CONTROL", "f") -> command_mode_move_right(e, 1)
      [] k.code = "Char" /\ k.mods \in {"NONE", "SHIFT"} ->
           [e EXCEPT !.command = RopeInsert(e.command, e.command_cursor, k.ch),
                     !.command_cursor = e.command_cursor + Len(k.ch)]
      [] IsCode(k, "NONE", "Backspace") -> CommandBackspace(e)
      [] IsCode(k, "NONE", "Enter") -> execute_command(e, io)
      [] IsCode(k, "NONE", "Esc") -> LeaveCommandMode(e)
      [] IsCode(k, "NONE", "Up") -> [e EXCEPT !.command_cursor = 0]
      [] OTHER -> e

UpdateCommand(e, k, io) ==
    CASE IsChar(k, "CONTROL", "a") -> [e EXCEPT !.command_cursor = 0]
      [] IsChar(k, "CONTROL", "e") ->
           [e EXCEPT !.command_cursor = ByteLen(e.command)]
      [] IsCode(k, "NONE", "Left") -> command_mode_move_left(e, 1)
      [] IsCode(k, "NONE", "Right") -> command_mode_move_right(e, 1)
      [] IsChar(k, "CONTROL", "b") -> command_mode_move_left(e, 1)
      [] IsChar(k, "CONTROL", "f") -> command_mode_move_right(e, 1)
      [] k.code = "Char" /\ k.mods \in {"NONE", "SHIFT"} ->
           [e EXCEPT !.command = RopeInsert(e.command, e.command_cursor, k.ch),
                     !.command_cursor = e.command_cursor + Len(k.ch)]
      [] IsCode(k, "NONE", "Backspace") -> CommandBackspace(e)
      [] IsCode(k, "NONE", "Enter") -> execute_command(e, io)
      [] IsCode(k, "NONE", "Esc") -> LeaveCommandMode(e)
      [] OTHER -> e

\* The head of a pointer press or drag at byte_offset.
PointerHead(e, byte_offset) ==
    IF is_backward(e) THEN byte_offset
    ELSE ceil_grapheme_boundary(e.text, byte_offset + 1)

\* src/editor.rs keeps the column eagerly (desired_column: usize, held here
\* as Some(column)): Editor::update_desired_column.
lib_update_desired_column(e) ==
    LET current_line_byte_index == ByteOfLine(e.text, LineOfByte(e.text, e.head))
    IN  [e EXCEPT !.desired_column =
                      Some(DisplayWidth(ByteSlice(e.text, current_line_byte_index,
                                                  e.head)))]

\* An extend_to that puts head on the offset whatever the orientation.
ExtendToOffsetItself(e, byte_offset) ==
    Then(DebugAssert(e, BoundaryOk(e.text, byte_offset)),
         LAMBDA a : lib_update_desired_column([a EXCEPT !.head = byte_offset]))

\* src/editor.rs, Editor::extend_to
lib_extend_to(e, byte_offset) ==
    Then(DebugAssert(e, BoundaryOk(e.text, byte_offset)),
         LAMBDA a : lib_update_desired_column(
                        [a EXCEPT !.head = PointerHead(a, byte_offset)]))

\* src/editor.rs, Editor::extend_left
lib_extend_left(e, count) ==
    Then(DebugAssert(e, BoundaryOk(e.text, e.head)),
         LAMBDA a : lib_update_desired_column(ExtendLeftLoop(a, count)))

\* src/editor.rs, Editor::move_to
lib_move_to(e, byte_offset) ==
    Then(Then(Then(lib_extend_to(e, byte_offset), reduce),
              LAMBDA a : lib_extend_left(a, 1)),
         flip_forward)

\* src/editor.rs, Editor::extend_right
lib_extend_right(e, count) ==
    Then(DebugAssert(e, BoundaryOk(e.text, e.head)),
         LAMBDA a : lib_update_desired_column(ExtendRightLoop(a, count)))

\* The loop of src/editor.rs, Editor::extend_up: the column is read and
\* never written.
RECURSIVE LibExtendUpLoop(_, _)
LibExtendUpLoop(e, count) ==
    IF count = 0 THEN e
    ELSE LET current_line_index == LineOfByte(e.text, e.head)
         IN  IF current_line_index = 0 THEN e
             ELSE LET target_line_index == current_line_index - 1
                      byte_offset ==
                          WalkColumns(Graphemes(Line(e.text, target_line_index)), 0,
                                      ByteOfLine(e.text, target_line_index),
                                      Unwrap(e.desired_column))
                  IN  LibExtendUpLoop([e EXCEPT !.head = byte_offset], count - 1)

\* src/editor.rs, Editor::extend_up
lib_extend_up(e, count) ==
    Then(DebugAssert(e, BoundaryOk(e.text, e.head)),
         LAMBDA a : LibExtendUpLoop(a, count))

\* The loop of src/editor.rs, Editor::extend_down.
RECURSIVE LibExtendDownLoop(_, _)
LibExtendDownLoop(e, count) ==
    IF count = 0 THEN e
    ELSE LET current_line_index == LineOfByte(e.text, e.head)
             target_line_index == current_line_index + 1
         IN  IF target_line_index >= LineLen(e.text)
             THEN [e EXCEPT !.head = ByteLen(e.text)]
             ELSE LET byte_offset ==
                          WalkColumns(Graphemes(Line(e.text, target_line_index)), 0,
                                      ByteOfLine(e.text, target_line_index),
                                      Unwrap(e.desired_column))
                  IN  LibExtendDownLoop([e EXCEPT !.head = byte_offset], count - 1)

\* src/editor.rs, Editor::extend_down
lib_extend_down(e, count) ==
    Then(DebugAssert(e, BoundaryOk(e.text, e.head)),
         LAMBDA a : LibExtendDownLoop(a, count))

\* src/editor.rs, Editor::extend_line_start: a forward selection goes one
\* grapheme past the start of the line.
lib_extend_line_start(e) ==
    Then(DebugAssert(e, BoundaryOk(e.text, e.head)),
         LAMBDA a :
             LET moved == [a EXCEPT !.head = ByteOfLine(a.text, LineOfByte(a.text, a.head))]
             IN  Then(IF is_forward(moved) THEN lib_extend_right(moved, 1) ELSE moved,
                      lib_update_desired_column))

\* src/editor.rs, Editor::extend_line_end: nothing at the end of the buffer;
\* a backward selection stops one grapheme before the end of the line.
lib_extend_line_end(e) ==
    Then(DebugAssert(e, BoundaryOk(e.text, e.head)),
         LAMBDA a :
             IF a.head >= ByteLen(a.text) THEN a
             ELSE LET line_index == LineOfByte(a.text, a.head)
                      moved == [a EXCEPT !.head = ByteOfLine(a.text, line_index)
                                                   + ByteLen(Line(a.text, line_index))]
                  IN  Then(IF is_backward(moved) THEN lib_extend_left(moved, 1)
                           ELSE moved,
                           lib_update_desired_column))

\* src/editor.rs, Editor::insert
lib_insert(e, s) ==
    LET inserted == [e EXCEPT !.text = RopeInsert(e.text, e.head, s),
                              !.head = e.head + Len(s)]
    IN  [reduce(lib_update_desired_column(inserted)) EXCEPT !.modified = TRUE]

\* A pointer handler that treats every press and drag as a primary press.
UpdateMouseAllPrimary(e, areas, m) ==
    LET at == position_to_byte_offset(e.text, e.vertical_scroll, areas.text,
                                      [x |-> m.column, y |-> m.row])
    IN  CASE m.kind = "ScrollUp" -> scroll_up(e, 3)
          [] m.kind = "ScrollDown" -> scroll_down(e, 3)
          [] m.kind \in {"Down", "Drag"} ->
               IF IsSome(at)
               THEN [e EXCEPT !.head = PointerHead(e, Unwrap(at)),
                              !.anchor = Unwrap(at),
                              !.desired_column = None]
               ELSE e
          [] OTHER -> e

UpdateMouse(e, areas, m) ==
    LET at == position_to_byte_offset(e.text, e.vertical_scroll, areas.text,
                                      [x |-> m.column, y |-> m.row])
    IN  CASE m.kind = "ScrollUp" -> scroll_up(e, 3)
          [] m.kind = "ScrollDown" -> scroll_down(e, 3)
          [] m.kind = "Down" /\ m.button = "Left" ->
               IF IsSome(at)
               THEN [e EXCEPT !.head = PointerHead(e, Unwrap(at)),
                              !.anchor = Unwrap(at),
                              !.desired_column = None]
               ELSE e
          [] \/ m.kind = "Down" /\ m.button = "Right"
             \/ m.kind = "Drag" /\ m.button \in {"Left", "Right"} ->
               IF IsSome(at)
               THEN [e EXCEPT !.head = PointerHead(e, Unwrap(at)),
                              !.desired_column = None]
               ELSE e
          [] OTHER -> e

\* A dispatcher that leaves the status message of the previous event.
UpdateKeepingMessage(e0, area, event, io) ==
    LET e == [e0 EXCEPT !.confirmed = None]
        areas == Areas(e.text, area)
    IN  CASE event.type = "Key" /\ e.mode = "Normal" -> UpdateNormal(e, areas, event)
          [] event.type = "Key" /\ e.mode = "Goto" -> UpdateGoto(e, event)
          [] event.type = "Key" /\ e.mode = "Insert" -> UpdateInsert(e, event)
          [] event.type = "Key" /\ e.mode = "Command" -> UpdateCommand(e, event, io)
          [] event.type = "Mouse" -> UpdateMouse(e, areas, event)
          [] OTHER -> e

\* fn update: the status message is cleared, then the event is dispatched on
\* its type and on the mode.  (confirmed is the model's record of the
\* command line this event ran, so it is cleared as well.)
update(e0, area, event, io) ==
    LET e == [e0 EXCEPT !.message = None, !.confirmed = None]
        areas == Areas(e.text, area)
    IN  CASE event.type = "Key" /\ e.mode = "Normal" -> UpdateNormal(e, areas, event)
          [] event.type = "Key" /\ e.mode = "Goto" -> UpdateGoto(e, event)
          [] event.type = "Key" /\ e.mode = "Insert" -> UpdateInsert(e, event)
          [] event.type = "Key" /\ e.mode = "Command" -> UpdateCommand(e, event, io)
          [] event.type = "Mouse" -> UpdateMouse(e, areas, event)
          [] OTHER -> e

(***************************************************************************)
(* State: the fields of struct Editor (src/main.rs), the file at `path`,   *)
(* the position of main's loop, the build profile, and the command line    *)
(* run by the event just handled.  (pwd only feeds the status bar and is   *)
(* left out.)                                                              *)
(***************************************************************************)
VARIABLES path, modified, text, anchor, head, desired_column, vertical_scroll,
          mode, command, command_cursor, message, exit_code,
          disk, run, debug_assertions, confirmed, law

vars == <<path, modified, text, anchor, head, desired_column, vertical_scroll,
          mode, command, command_cursor, message, exit_code,
          disk, run, debug_assertions, confirmed, law>>

Self ==
    [path |-> path, modified |-> modified, text |-> text, anchor |-> anchor,
     head |-> head, desired_column |-> desired_column,
     vertical_scroll |-> vertical_scroll, mode |-> mode, command |-> command,
     command_cursor |-> command_cursor, message |-> message,
     exit_code |-> exit_code, disk |-> disk, run |-> run,
     debug_assertions |-> debug_assertions, confirmed |-> confirmed]

SetFields(e) ==
    /\ path' = e.path
    /\ modified' = e.modified
    /\ text' = e.text
    /\ anchor' = e.anchor
    /\ head' = e.head
    /\ desired_column' = e.desired_column
    /\ vertical_scroll' = e.vertical_scroll
    /\ mode' = e.mode
    /\ command' = e.command
    /\ command_cursor' = e.command_cursor
    /\ message' = e.message
    /\ exit_code' = e.exit_code
    /\ disk' = e.disk
    /\ run' = e.run
    /\ debug_assertions' = e.debug_assertions
    /\ confirmed' = e.confirmed

\* An event handled by update: the editor changes, no law is being examined.
Set(e) == SetFields(e) /\ law' = law

\* impl TryFrom<Rope> for Editor
try_from(rope) ==
    /\ path = None
    /\ modified = FALSE
    /\ text = rope
    /\ anchor = 0
    /\ head = 0
    /\ desired_column = None
    /\ vertical_scroll = 0
    /\ mode = "Normal"
    /\ command = << >>
    /\ command_cursor = 0
    /\ message = None
    /\ exit_code = None

Process ==
    /\ run = "loop"
    /\ debug_assertions \in BOOLEAN
    /\ confirmed = None
    /\ law = None

\* Editor::new(): the unnamed scratch buffer.
Init ==
    /\ try_from(<< >>)
    /\ disk = None
    /\ Process

\* The file that Editor::open finds in the command-line specifications.
ExistingFile == <<"a", "\n">>

\* Editor::new(), or Editor::open(path) of an existing or a missing file.
InitCmd ==
    /\ \/ try_from(<< >>) /\ disk = None
       \/ /\ disk \in {None, Some(ExistingFile)}
          /\ modified = FALSE
          /\ text = (IF IsSome(disk) THEN Unwrap(disk) ELSE << >>)
          /\ path = Some("file")
          /\ anchor = 0 /\ head = 0 /\ desired_column = None
          /\ vertical_scroll = 0 /\ mode = "Normal"
          /\ command = << >> /\ command_cursor = 0
          /\ message = None /\ exit_code = None
    /\ Process

\* frame.area()
Area == [x |-> 0, y |-> 0, width |-> TermWidth, height |-> TermHeight]

\* main's loop: update runs while no exit code is set and nothing failed.
Running == run = "loop" /\ exit_code = None

(***************************************************************************)
(* The events of the model.  Each mode gets its bound keys and one unbound *)
(* key.  Insert mode types "a", the combining accent and the wide          *)
(* character; Tab is not typed (the width of a tab is the display-width    *)
(* collaborator's choice).                                                 *)
(***************************************************************************)
TextChars == {<<"a">>, Acute, Wide}

NormalKeys ==
    {Char("CONTROL", <<c>>) : c \in {"p", "u", "d", "b", "f"}}
    \cup {Char("NONE", <<c>>) :
            c \in {"h", "l", "k", "j", ";", "d", "c", "i", ":", "g", "z"}}
    \cup {Char("SHIFT", <<c>>) : c \in {"H", "L", "K", "J"}}
    \cup {Char("ALT", <<";">>), Char("SHIFT|ALT", <<";">>), Code("NONE", "Esc")}

GotoKeys ==
    {Char("NONE", <<c>>) : c \in {"k", "h", "l", "z"}}
    \cup {Char("SHIFT", <<c>>) : c \in {"H", "L", "K"}}
    \cup {Char("CONTROL", <<"k">>), Code("NONE", "Esc"), Code("NONE", "Enter")}

InsertKeys ==
    {Char("CONTROL", <<c>>) : c \in {"a", "e", "b", "f"}}
    \cup {Char("NONE", c) : c \in TextChars}
    \cup {Code("NONE", c) : c \in {"Enter", "Backspace", "Esc", "Left"}}

CommandKeysOver(chars) ==
    {Char("CONTROL", <<c>>) : c \in {"a", "e", "b", "f"}}
    \cup {Char("NONE", <<c>>) : c \in chars}
    \cup {Code("NONE", c) : c \in {"Left", "Right", "Backspace", "Enter", "Esc", "Up"}}

\* The characters typed on the command line in Spec and in SpecCmd.
EditCmdChars == {"q"}
CmdChars == {"w", "q", " ", "3"}

\* Pointer positions: every cell of the text area and one cell outside it.
MousePositions ==
    {<<c, r>> : c \in 3..(TermWidth - 1), r \in 1..(TermHeight - 1)} \cup {<<0, 0>>}

MouseEvents ==
    {MouseEvent(kb[1], kb[2], at[1], at[2]) :
        kb \in {<<"Down", "Left">>, <<"Down", "Right">>,
                <<"Drag", "Left">>, <<"Drag", "Right">>},
        at \in MousePositions}
    \cup {MouseEvent(kind, "None", 0, 0) : kind \in {"ScrollUp", "ScrollDown", "Moved"}}

\* The bytes a key adds to the buffer in Insert mode.
Typed(k) ==
    IF k.code = "Char" /\ k.mods \in {"NONE", "SHIFT"} THEN k.ch
    ELSE IF k.code = "Enter" THEN <<"\n">>
    ELSE << >>

KeyNormal(k) ==
    /\ Running
    /\ mode = "Normal"
    /\ Set(update(Self, Area, k, "ok"))

KeyGoto(k) ==
    /\ Running
    /\ mode = "Goto"
    /\ Set(update(Self, Area, k, "ok"))

KeyInsert(k) ==
    /\ Running
    /\ mode = "Insert"
    /\ Len(text) + Len(Typed(k)) <= MaxLen
    /\ Set(update(Self, Area, k, "ok"))

\* A key in Command mode; io is the outcome of the write that Enter may
\* cause, limit bounds the line being typed.
KeyCommand(k, io, limit) ==
    /\ Running
    /\ mode = "Command"
    /\ Len(command) + Len(k.ch) <= limit \/ k.code # "Char" \/ k.mods = "CONTROL"
    /\ Set(update(Self, Area, k, io))

Mouse(m) ==
    /\ Running
    /\ Set(update(Self, Area, m, "ok"))

\* Any other event (focus, paste): only the status message is cleared.
OtherEvent ==
    /\ Running
    /\ Set(update(Self, Area, [type |-> "FocusGained"], "ok"))

IoFor(k) == IF IsCode(k, "NONE", "Enter") THEN IoOutcomes ELSE {"ok"}

Next ==
    \/ \E k \in NormalKeys : KeyNormal(k)
    \/ \E k \in GotoKeys : KeyGoto(k)
    \/ \E k \in InsertKeys : KeyInsert(k)
    \/ \E k \in CommandKeysOver(EditCmdChars) :
         \E io \in IoFor(k) : KeyCommand(k, io, MaxEditCmdLen)
    \/ \E m \in MouseEvents : Mouse(m)
    \/ OtherEvent

\* The editor driven by every event of the model, from an empty buffer.
Spec == Init /\ [][Next]_vars

\* The command line: ':' opens it, 'd' marks the buffer modified, and the
\* keys of Command mode compose and confirm a line.
NextCmd ==
    \/ \E k \in {Char("NONE", <<":">>), Char("NONE", <<"d">>)} : KeyNormal(k)
    \/ \E k \in CommandKeysOver(CmdChars) :
         \E io \in IoFor(k) : KeyCommand(k, io, MaxCmdLen)

SpecCmd == InitCmd /\ [][NextCmd]_vars

(***************************************************************************)
(* The interpreter alone: a composed line is confirmed, by Enter in        *)
(* src/main.rs or by a call of execute_command of src/editor.rs.           *)
(***************************************************************************)
CommandLines ==
    {<<>>,
     <<" ">>,
     <<"e", "c", "h", "o">>,
     <<"e", "c", "h", "o", " ", "h", "e", "l", "l", "o", " ", "w", "o", "r", "l", "d">>,
     <<"e", "c", "h", "o", " ", "-", "-", "e", "r", "r", "o", "r", " ", "o", "o", "p", "s">>,
     <<"e", "c", "h", "o", " ", "o", "o", "p", "s", " ", "-", "-", "e", "r", "r", "o", "r">>,
     <<"e", "c", "h", "o", " ", "-", "-", "e", "r", "r", "o", "r", " ", "-", "-", "e", "r", "r", "o", "r">>,
     <<"e", "c", "h", "o", " ", "-", "x">>,
     <<"e", "c", "h", "o", " ", "\"", "a", " ", "b", "\"", " ", " ", "c">>,
     <<"e", "c", "h", "o", " ", "\"", "a">>,
     <<"w">>,
     <<"w", "r", "i", "t", "e">>,
     <<"w", " ", "3">>,
     <<"q">>,
     <<"q", "u", "i", "t">>,
     <<"q", " ", "3">>,
     <<"q", " ", "2", "5", "5">>,
     <<"q", " ", "2", "5", "6">>,
     <<"q", " ", "x">>,
     <<"q", " ", "1", " ", "2">>,
     <<"q", "!">>,
     <<"q", "u", "i", "t", "!">>,
     <<"q", "!", " ", "3">>,
     <<"q", "!", " ", "2", "5", "6">>,
     <<"w", "q">>,
     <<"w", "r", "i", "t", "e", "-", "q", "u", "i", "t">>,
     <<"w", "q", " ", "3">>,
     <<"w", "q", " ", "9", "9", "9">>,
     <<"x">>,
     <<"h", "e", "l", "p">>,
     <<"-", "h">>}

InitExec ==
    /\ path \in {None, Some("file")}
    /\ disk \in (IF IsSome(path) THEN {None, Some(ExistingFile)} ELSE {None})
    /\ text \in {<< >>, ExistingFile}
    /\ modified \in BOOLEAN
    /\ (~modified => text = (IF IsSome(disk) THEN Unwrap(disk) ELSE << >>))
    /\ anchor = 0 /\ head = 0 /\ desired_column = None /\ vertical_scroll = 0
    /\ mode = "Command"
    /\ command \in CommandLines
    /\ command_cursor = Len(command)
    /\ message = None
    /\ exit_code = None
    /\ Process

Confirm(io) == KeyCommand(Code("NONE", "Enter"), io, 0)

LibConfirm(io) ==
    /\ Running
    /\ mode = "Command"
    /\ Set(lib_execute_command(Self, io))

NextExec ==
    \/ \E io \in IoOutcomes : Confirm(io)
    \/ \E io \in IoOutcomes : LibConfirm(io)

SpecExec == InitExec /\ [][NextExec]_vars

(***************************************************************************)
(* The operations by themselves: an editor over a drawn buffer, with both  *)
(* ends of the selection on grapheme boundaries, to which the operations   *)
(* of a law are applied one after the other.  law records what went in and *)
(* what came out.                                                          *)
(***************************************************************************)
\* Characters of the drawn buffers, the longest drawn buffer in characters,
\* and the largest repeat count.
LawChars == {<<"a">>, <<"\n">>, Acute, Wide}
MaxLawChars == 3
MaxCount == 2

\* No drawn buffer is longer than this: a character takes at most 3 bytes.
MaxLawBytes == 3 * MaxLawChars

RECURSIVE TextsUpTo(_)
TextsUpTo(n) ==
    IF n = 0 THEN {<< >>}
    ELSE LET shorter == TextsUpTo(n - 1)
         IN  shorter \cup {t \o c : t \in shorter, c \in LawChars}

\* Buffers with lines of different lengths, longer than MaxLawChars.
RaggedTexts ==
    {<<"a", "b", "\n", "c", "d", "e">>,
     <<"a", "a", "\n", "\n", "a", "a">>,
     <<"a", "a", "\n", "a", "\n", "a", "a">>,
     <<"a", "a", "\n">> \o Wide \o <<"\n", "a", "a">>,
     <<"a", "\n">> \o Acute \o <<"a", "\n", "a">>}

LawTexts == TextsUpTo(MaxLawChars) \cup RaggedTexts

Boundaries(t) == {off \in 0..ByteLen(t) : IsGraphemeBoundary(t, off)}

InitLaws ==
    /\ text \in LawTexts
    /\ anchor \in Boundaries(text)
    /\ head \in Boundaries(text)
    /\ vertical_scroll \in 0..Min(1, SaturatingSub(LineLen(text), 1))
    /\ path = None /\ disk = None /\ modified = FALSE
    /\ desired_column = None
    /\ mode = "Normal"
    /\ command = << >> /\ command_cursor = 0
    /\ message = None /\ exit_code = None
    /\ run = "loop"
    /\ debug_assertions \in BOOLEAN
    /\ confirmed = None
    /\ law = None

\* The operation recorded last is op.
LawIs(op) == law # None /\ law[1].op = op

\* An operation applied to the drawn editor, and one applied after op.
Fresh == run = "loop" /\ law = None
After(op) == run = "loop" /\ LawIs(op)

\* move_down(n), then move_up(n) with the same n.
LawMoveDown(n) ==
    /\ Fresh
    /\ SetFields(move_down(Self, n))
    /\ law' = Some([op |-> "move_down", n |-> n, head |-> head])

LawMoveUp ==
    /\ After("move_down")
    /\ SetFields(move_up(Self, law[1].n))
    /\ law' = Some([law[1] EXCEPT !.op = "move_down_up"])

\* floor_grapheme_boundary and ceil_grapheme_boundary of an offset x, which
\* may lie past the end of the buffer.
LawSnap(x) ==
    /\ Fresh
    /\ x <= ByteLen(text) + 2
    /\ SetFields(Self)
    /\ law' = Some([op |-> "snap", x |-> x,
                    floor |-> floor_grapheme_boundary(text, x),
                    ceil |-> ceil_grapheme_boundary(text, x),
                    floor_floor |->
                        floor_grapheme_boundary(text, floor_grapheme_boundary(text, x))])

\* delete() of a non-empty selection, then insert(removed text).
LawDelete ==
    /\ Fresh
    /\ anchor # head
    /\ SetFields(delete(Self))
    /\ law' = Some([op |-> "delete", text |-> text, anchor |-> anchor, head |-> head,
                    removed |-> ByteSlice(text, Min(anchor, head), Max(anchor, head))])

LawReinsert ==
    /\ After("delete")
    /\ SetFields(insert(Self, law[1].removed))
    /\ law' = Some([law[1] EXCEPT !.op = "delete_insert"])

\* is_forward(), is_backward(), then flip_forward() once and once more.
LawFlipForward ==
    /\ Fresh
    /\ SetFields(flip_forward(Self))
    /\ law' = Some([op |-> "flip_forward", anchor |-> anchor, head |-> head,
                    is_forward |-> is_forward(Self),
                    is_backward |-> is_backward(Self),
                    once |-> << >>])

LawFlipForwardAgain ==
    /\ After("flip_forward")
    /\ SetFields(flip_forward(Self))
    /\ law' = Some([law[1] EXCEPT !.op = "flip_forward_twice",
                                  !.once = <<anchor, head>>])

\* byte_offset_to_area of a boundary o, then position_to_byte_offset of the
\* top-left cell of the rectangle, when there is one.
LawLocate(o) ==
    /\ Fresh
    /\ o \in Boundaries(text)
    /\ SetFields(Self)
    /\ LET area == Areas(text, Area).text
           rect == byte_offset_to_area(text, vertical_scroll, area, o)
       IN  law' = Some([op |-> "locate", o |-> o, rect |-> rect,
                        back |-> IF IsSome(rect)
                                 THEN position_to_byte_offset(
                                          text, vertical_scroll, area,
                                          [x |-> rect[1].x, y |-> rect[1].y])
                                 ELSE None])

\* move_to(o) of src/editor.rs, for a boundary o.
LawMoveTo(o) ==
    /\ Fresh
    /\ o \in Boundaries(text)
    /\ SetFields(lib_move_to(Self, o))
    /\ law' = Some([op |-> "move_to", o |-> o, anchor |-> anchor, head |-> head])

\* prev_grapheme_boundary and next_grapheme_boundary of an offset x, which
\* need not be a boundary and may lie past the end of the buffer.
LawNeighbours(x) ==
    /\ Fresh
    /\ x <= ByteLen(text) + 2
    /\ SetFields(Self)
    /\ law' = Some([op |-> "neighbours", x |-> x,
                    prev |-> prev_grapheme_boundary(text, x),
                    next |-> next_grapheme_boundary(text, x)])

\* delete_before() or delete_after() on the drawn editor.
LawDeleteBeside(side) ==
    /\ Fresh
    /\ SetFields(IF side = "delete_before" THEN delete_before(Self)
                 ELSE delete_after(Self))
    /\ law' = Some([op |-> side, text |-> text, anchor |-> anchor,
                    head |-> head, modified |-> modified])

\* extend_to(o) of src/editor.rs, for a boundary o, on the drawn editor or
\* on one whose column a move_down has cached.
LawExtendTo(o) ==
    /\ Fresh \/ After("move_down")
    /\ o \in Boundaries(text)
    /\ SetFields(lib_extend_to(Self, o))
    /\ law' = Some([op |-> "extend_to", o |-> o, anchor |-> anchor,
                    head |-> head, desired_column |-> desired_column])

\* position_to_byte_offset of a pointer position p, then byte_offset_to_area
\* of the offset, when there is one.
LawClick(p) ==
    /\ Fresh
    /\ SetFields(Self)
    /\ LET area == Areas(text, Area).text
           pos == [x |-> p[1], y |-> p[2]]
           off == position_to_byte_offset(text, vertical_scroll, area, pos)
       IN  law' = Some([op |-> "click", pos |-> pos, off |-> off,
                        rect |-> IF IsSome(off)
                                 THEN byte_offset_to_area(text, vertical_scroll,
                                                          area, off[1])
                                 ELSE None])

NextLaws ==
    \/ \E n \in 1..MaxCount : LawMoveDown(n)
    \/ LawMoveUp
    \/ \E x \in 0..(MaxLawBytes + 2) : LawSnap(x)
    \/ LawDelete
    \/ LawReinsert
    \/ LawFlipForward
    \/ LawFlipForwardAgain
    \/ \E o \in 0..MaxLawBytes : LawLocate(o)
    \/ \E o \in 0..MaxLawBytes : LawMoveTo(o)
    \/ \E p \in MousePositions : LawClick(p)
    \/ \E o \in 0..MaxLawBytes : LawExtendTo(o)
    \/ \E side \in {"delete_before", "delete_after"} : LawDeleteBeside(side)
    \/ \E x \in 0..(MaxLawBytes + 2) : LawNeighbours(x)

SpecLaws == InitLaws /\ [][NextLaws]_vars

(***************************************************************************)
(* Pointer input by itself: one pointer event handled by update, in a      *)
(* drawn editor in any of the four modes.  law records the event and the   *)
(* editor before it.                                                       *)
(***************************************************************************)
Modes == {"Normal", "Goto", "Insert", "Command"}

InitPointer ==
    /\ text \in LawTexts
    /\ anchor \in Boundaries(text)
    /\ head \in Boundaries(text)
    /\ vertical_scroll \in 0..Min(1, SaturatingSub(LineLen(text), 1))
    /\ path = None /\ disk = None
    /\ modified = (text # << >>)
    /\ desired_column = None
    /\ mode \in Modes
    /\ command = (IF mode = "Command" THEN <<"w">> ELSE << >>)
    /\ command_cursor = Len(command)
    /\ message = None /\ exit_code = None
    /\ run = "loop"
    /\ debug_assertions \in BOOLEAN
    /\ confirmed = None
    /\ law = None

LawPointer(m) ==
    /\ Fresh
    /\ SetFields(update(Self, Area, m, "ok"))
    /\ law' = Some([op |-> "pointer", event |-> m, before |-> Self])

NextPointer == \E m \in MouseEvents : LawPointer(m)

SpecPointer == InitPointer /\ [][NextPointer]_vars

(***************************************************************************)
(* Editing and saving together: an editor opened on a path or on nothing,  *)
(* driven by the keys that edit the buffer and by a command line of "w"   *)
(* and the combining accent.                                               *)
(***************************************************************************)
NextSave ==
    \/ \E k \in {Char("NONE", <<"i">>), Char("NONE", <<":">>),
                  Char("NONE", <<"d">>), Char("SHIFT", <<"L">>)} : KeyNormal(k)
    \/ \E k \in {Char("NONE", <<"a">>), Code("NONE", "Backspace"),
                  Code("NONE", "Esc")} : KeyInsert(k)
    \/ \E k \in CommandKeysOver({"w"}) \cup {Char("NONE", Acute)} :
         \E io \in IoFor(k) : KeyCommand(k, io, MaxCmdLen)

SpecSave == InitCmd /\ [][NextSave]_vars

(***************************************************************************)
(* The two editors side by side: the Editor of src/main.rs in the          *)
(* variables and the Editor of src/editor.rs in law, both from new(), the  *)
(* same operation applied to both at every step.  The run goes on while    *)
(* the two agree.                                                          *)
(***************************************************************************)
\* The operations the two implementations share.
SharedOps ==
    {"extend_left", "extend_right", "extend_up", "extend_down",
     "extend_line_start", "extend_line_end",
     "move_left", "move_right", "move_up", "move_down",
     "move_line_start", "move_line_end",
     "reduce", "flip", "flip_forward", "insert", "delete", "delete_before"}

\* The strings inserted, and the longest buffer in bytes.
TwinStrings == {<<"a">>, <<"\n">>, Acute}
MaxTwinBytes == 3

\* The operation op of src/main.rs.
MainApply(e, op, count, s) ==
    CASE op = "extend_left" -> extend_left(e, count)
      [] op = "extend_right" -> extend_right(e, count)
      [] op = "extend_up" -> extend_up(e, count)
      [] op = "extend_down" -> extend_down(e, count)
      [] op = "extend_line_start" -> extend_line_start(e)
      [] op = "extend_line_end" -> extend_line_end(e)
      [] op = "move_left" -> move_left(e, count)
      [] op = "move_right" -> move_right(e, count)
      [] op = "move_up" -> move_up(e, count)
      [] op = "move_down" -> move_down(e, count)
      [] op = "move_line_start" -> move_line_start(e)
      [] op = "move_line_end" -> move_line_end(e)
      [] op = "reduce" -> reduce(e)
      [] op = "flip" -> flip(e)
      [] op = "flip_forward" -> flip_forward(e)
      [] op = "insert" -> insert(e, s)
      [] op = "delete" -> delete(e)
      [] op = "delete_before" -> delete_before(e)

\* The operation op of src/editor.rs.  Its move_* are the extend_* followed
\* by reduce; its reduce, flip, flip_forward, delete and delete_before have
\* the text of those of src/main.rs.
LibApply(e, op, count, s) ==
    CASE op = "extend_left" -> lib_extend_left(e, count)
      [] op = "extend_right" -> lib_extend_right(e, count)
      [] op = "extend_up" -> lib_extend_up(e, count)
      [] op = "extend_down" -> lib_extend_down(e, count)
      [] op = "extend_line_start" -> lib_extend_line_start(e)
      [] op = "extend_line_end" -> lib_extend_line_end(e)
      [] op = "move_left" -> Then(lib_extend_left(e, count), reduce)
      [] op = "move_right" -> Then(lib_extend_right(e, count), reduce)
      [] op = "move_up" -> Then(lib_extend_up(e, count), reduce)
      [] op = "move_down" -> Then(lib_extend_down(e, count), reduce)
      [] op = "move_line_start" -> Then(lib_extend_line_start(e), reduce)
      [] op = "move_line_end" -> Then(lib_extend_line_end(e), reduce)
      [] op = "reduce" -> reduce(e)
      [] op = "flip" -> flip(e)
      [] op = "flip_forward" -> flip_forward(e)
      [] op = "insert" -> lib_insert(e, s)
      [] op = "delete" -> delete(e)
      [] op = "delete_before" -> delete_before(e)

\* Editor::new() of both files; that of src/editor.rs starts at column 0.
InitTwin ==
    /\ try_from(<< >>)
    /\ disk = None
    /\ run = "loop"
    /\ debug_assertions \in BOOLEAN
    /\ confirmed = None
    /\ law = Some([op |-> "new",
                   lib |-> [Self EXCEPT !.desired_column = Some(0)]])

\* The editor of src/editor.rs.
Lib == law[1].lib

\* Both editors hold the same selection over the same buffer.
TwinsAgree == Lib.anchor = anchor /\ Lib.head = head /\ Lib.text = text

\* One shared operation applied to both editors.
Twin(op, count, s) ==
    /\ run = "loop" /\ Lib.run = "loop"
    /\ TwinsAgree
    /\ op = "insert" => ByteLen(text) + Len(s) <= MaxTwinBytes
    /\ SetFields(MainApply(Self, op, count, s))
    /\ law' = Some([op |-> op, lib |-> LibApply(Lib, op, count, s)])

NextTwin == \E op \in SharedOps, count \in 1..MaxCount, s \in TwinStrings :
                Twin(op, count, s)

SpecTwin == InitTwin /\ [][NextTwin]_vars

(***************************************************************************)
(* Properties                                                              *)
(***************************************************************************)
\* The step just taken confirmed the command line `line`.
ConfirmedNext(line) == confirmed' # None /\ confirmed'[1].line = line

\* The event just handled confirmed the command line `line`.
Confirmed(line) == confirmed # None /\ confirmed[1].line = line

\* The step left document and selection as they were.
DocumentUnchanged ==
    /\ text' = text
    /\ anchor' = anchor
    /\ head' = head
    /\ modified' = modified
    /\ disk' = disk

\* C1: after every selection operation that starts with anchor and head on
\* grapheme boundaries, anchor and head are again grapheme boundaries of
\* the buffer.  Stated over the running editor: after every handled event,
\* both ends of the selection are grapheme boundaries of the text.
C1_SelectionOnBoundaries ==
    run = "loop" => BoundaryOk(text, anchor) /\ BoundaryOk(text, head)

\* C2: no user input panics: the update step never ends in a panic.
C2_NoPanic == run # "panic"

\* C3: `quit` / `q` on a modified buffer sets the status error "Unsaved
\* changes" and sets no exit code; on an unmodified buffer it sets the exit
\* code to the given code, 0 when none is given.
C3_QuitCases ==
    {[line |-> <<"q">>, code |-> 0],
     [line |-> <<"q", "u", "i", "t">>, code |-> 0],
     [line |-> <<"q", " ", "3">>, code |-> 3],
     [line |-> <<"q", " ", "2", "5", "5">>, code |-> 255]}

C3_Quit ==
    [][\A c \in C3_QuitCases :
         ConfirmedNext(c.line) =>
           /\ run' = "loop"
           /\ IF modified
              THEN message' = Some(Err("Unsaved changes")) /\ exit_code' = None
              ELSE message' = None /\ exit_code' = Some(c.code)]_vars

\* quit was refused on a modified buffer.
C3_Witness ==
    /\ Confirmed(<<"q">>)
    /\ modified
    /\ message = Some(Err("Unsaved changes"))
    /\ exit_code = None

\* C4: `quit!` / `q!` sets the exit code whether or not the buffer is
\* modified, to the given code or to 0, and leaves buffer and modified flag
\* unchanged.
C4_QuitForceCases ==
    {[line |-> <<"q", "!">>, code |-> 0],
     [line |-> <<"q", "u", "i", "t", "!">>, code |-> 0],
     [line |-> <<"q", "!", " ", "3">>, code |-> 3]}

C4_QuitForce ==
    [][\A c \in C4_QuitForceCases :
         ConfirmedNext(c.line) =>
           /\ run' = "loop"
           /\ exit_code' = Some(c.code)
           /\ message' = None
           /\ DocumentUnchanged]_vars

\* quit! left a modified buffer.
C4_Witness ==
    /\ Confirmed(<<"q", "!">>)
    /\ modified
    /\ exit_code = Some(0)

\* C5: ':' , `wq 3`, Enter on a buffer with a path writes the buffer to the
\* path, clears the modified flag and sets the exit code to 3; write-quit
\* writes first and then sets the exit code (0 by default) whatever the
\* modified flag.  A write that fails returns its error instead (C8).
C5_WriteQuitCases ==
    {[line |-> <<"w", "q", " ", "3">>, code |-> 3],
     [line |-> <<"w", "q">>, code |-> 0]}

C5_WriteQuit ==
    [][\A c \in C5_WriteQuitCases :
         ConfirmedNext(c.line) =>
           IF path = None
           THEN run' = "loop" /\ exit_code' = Some(c.code) /\ DocumentUnchanged
           ELSE \/ run' = "error" /\ exit_code' = None
                \/ /\ run' = "loop"
                   /\ disk' = Some(text)
                   /\ text' = text
                   /\ modified' = FALSE
                   /\ exit_code' = Some(c.code)]_vars

\* `wq 3` was typed and confirmed on a buffer with a path: the file holds
\* the buffer and the exit code is 3.
C5_Witness ==
    /\ Confirmed(<<"w", "q", " ", "3">>)
    /\ path # None
    /\ disk = Some(text)
    /\ ~modified
    /\ exit_code = Some(3)

\* C6: whatever the outcome of confirming a command line, after
\* execute_command the command buffer is empty, the command cursor is 0 and
\* the mode is Normal.
C6_CommandLineDiscarded ==
    confirmed # None => command = << >> /\ command_cursor = 0 /\ mode = "Normal"

\* C7: confirming an empty command line changes nothing: no status message,
\* no exit code, document, selection and modified flag as before.
C7_EmptyLines == {<<>>, <<" ">>}

C7_EmptyLineNoOp ==
    [][\A l \in C7_EmptyLines :
         ConfirmedNext(l) =>
           /\ run' = "loop"
           /\ message' = None
           /\ exit_code' = None
           /\ DocumentUnchanged]_vars

\* C8: a failed save leaves the modified flag as it was and returns the
\* error; a successful save to a path clears the flag; without a path save
\* writes nothing, succeeds and leaves the flag.
C8_WriteLines == {<<"w">>, <<"w", "r", "i", "t", "e">>}

C8_Save ==
    [][\A l \in C8_WriteLines :
         ConfirmedNext(l) =>
           IF path = None
           THEN run' = "loop" /\ disk' = disk /\ modified' = modified
           ELSE \/ run' = "error" /\ modified' = modified
                \/ run' = "loop" /\ disk' = Some(text) /\ modified' = FALSE]_vars

\* A write failed on a modified buffer: the error is returned and the
\* buffer still counts as modified.
C8_Witness ==
    /\ Confirmed(<<"w">>)
    /\ path # None
    /\ run = "error"
    /\ modified

\* C9: an unrecognized verb or a malformed argument sets the status to an
\* error holding the first line of the parse failure message; the step
\* succeeds, sets no exit code and leaves the document unchanged.
C9_ParseFailures ==
    {[line |-> <<"3">>, first |-> "unrecognized subcommand '3'"],
     [line |-> <<"w", "w">>, first |-> "unrecognized subcommand 'ww'"],
     [line |-> <<"x">>, first |-> "unrecognized subcommand 'x'"],
     [line |-> <<"q", " ", "w">>,
      first |-> "invalid value 'w' for '[EXIT_CODE]': invalid digit found in string"],
     [line |-> <<"q", " ", "2", "5", "6">>,
      first |-> "invalid value '256' for '[EXIT_CODE]': 256 is not in 0..=255"],
     [line |-> <<"w", " ", "3">>, first |-> "unexpected argument '3' found"]}

C9_ParseFailureRecovered ==
    [][\A c \in C9_ParseFailures :
         ConfirmedNext(c.line) =>
           /\ run' = "loop"
           /\ message' = Some(Err(c.first))
           /\ exit_code' = None
           /\ DocumentUnchanged]_vars

\* C10: echo sets the status to its arguments joined by single spaces,
\* success unless --error is given; it sets no exit code and changes
\* neither buffer nor selection.
C10_EchoCases ==
    {[line |-> <<"e", "c", "h", "o", " ", "h", "e", "l", "l", "o", " ", "w", "o", "r", "l", "d">>,
      status |-> Ok("hello world")],
     [line |-> <<"e", "c", "h", "o", " ", "-", "-", "e", "r", "r", "o", "r", " ", "o", "o", "p", "s">>,
      status |-> Err("oops")],
     [line |-> <<"e", "c", "h", "o", " ", "o", "o", "p", "s", " ", "-", "-", "e", "r", "r", "o", "r">>,
      status |-> Err("oops")],
     [line |-> <<"e", "c", "h", "o", " ", "\"", "a", " ", "b", "\"", " ", " ", "c">>,
      status |-> Ok("a b c")],
     [line |-> <<"e", "c", "h", "o">>, status |-> Ok("")]}

C10_Echo ==
    [][\A c \in C10_EchoCases :
         ConfirmedNext(c.line) =>
           /\ run' = "loop"
           /\ message' = Some(c.status)
           /\ exit_code' = None
           /\ DocumentUnchanged]_vars

\* `echo hello world` was confirmed.
C10_Witness ==
    /\ Confirmed(<<"e", "c", "h", "o", " ", "h", "e", "l", "l", "o", " ", "w", "o", "r", "l", "d">>)
    /\ message = Some(Ok("hello world"))
    /\ exit_code = None

\* The display column of a boundary off: the width of its line before it.
ColumnOf(t, off) ==
    DisplayWidth(ByteSlice(t, ByteOfLine(t, LineOfByte(t, off)), off))

\* The grapheme at off takes at least one column, or off ends its line.
CellHasWidth(t, off) ==
    LET rest == Graphemes(ByteSlice(t, off, LineEndFrom(t, off)))
    IN  rest = << >> \/ GraphemeWidth(rest[1]) > 0

\* The lines that n steps down from the line of off pass through or end on.
TraversedLines(t, off, n) ==
    {l \in (LineOfByte(t, off) + 1)..(LineOfByte(t, off) + n) : l < LineLen(t)}

\* C11, as amended: move_down(n) followed by move_up(n), nothing in
\* between and the column cache unset before, returns head to its original
\* offset provided each of the n steps down lands on a line of the buffer
\* and the grapheme at the original head is not of zero width; lines
\* shorter than the column may be traversed.
C11_MoveDownUp ==
    (/\ LawIs("move_down_up")
     /\ LineOfByte(text, law[1].head) + law[1].n < LineLen(text)
     /\ CellHasWidth(text, law[1].head))
    => head = law[1].head

\* In "ab\ncde" with head at byte 1, move_down(1) then move_up(1) left head
\* at byte 1.
C11_Witness ==
    /\ LawIs("move_down_up")
    /\ text = <<"a", "b", "\n", "c", "d", "e">>
    /\ law[1].n = 1
    /\ law[1].head = 1
    /\ head = 1

\* C11, as stated: move_down(n) followed by move_up(n) returns head to its
\* original offset provided no traversed line is shorter than the
\* preserved column.
C11_MoveDownUpAsStated ==
    (/\ LawIs("move_down_up")
     /\ \A l \in TraversedLines(text, law[1].head, law[1].n) :
            DisplayWidth(Line(text, l)) >= ColumnOf(text, law[1].head))
    => head = law[1].head

\* C12, as amended: for an offset x within the buffer,
\* floor(x) <= x <= ceil(x) and both are boundaries; for x past the end
\* both are the buffer length; if x is a boundary then
\* floor(x) = ceil(x) = x; and floor(floor(x)) = floor(x).
C12_FloorCeil ==
    LawIs("snap") =>
        LET x == law[1].x
            floor == law[1].floor
            ceil == law[1].ceil
        IN  /\ x <= ByteLen(text) => floor <= x /\ x <= ceil
            /\ x > ByteLen(text) => floor = ByteLen(text) /\ ceil = ByteLen(text)
            /\ BoundaryOk(text, floor) /\ BoundaryOk(text, ceil)
            /\ BoundaryOk(text, x) => floor = x /\ ceil = x
            /\ law[1].floor_floor = floor

\* An offset inside a grapheme cluster was floored and ceiled to the two
\* boundaries around it.
C12_Witness ==
    /\ LawIs("snap")
    /\ law[1].x < ByteLen(text)
    /\ ~IsGraphemeBoundary(text, law[1].x)
    /\ law[1].floor < law[1].x
    /\ law[1].x < law[1].ceil

\* C12, as stated: for all offsets x, those past the buffer length
\* included, floor(x) <= x <= ceil(x); if x is a boundary then
\* floor(x) = ceil(x) = x; and floor(floor(x)) = floor(x).
C12_FloorCeilAsStated ==
    LawIs("snap") =>
        /\ law[1].floor <= law[1].x
        /\ law[1].x <= law[1].ceil
        /\ BoundaryOk(text, law[1].x) => law[1].floor = law[1].x /\ law[1].ceil = law[1].x
        /\ law[1].floor_floor = law[1].floor

\* C13: deleting a non-empty selection, forward or backward, and then
\* inserting the removed text at the resulting caret restores the content
\* and the byte length of the buffer.
C13_DeleteInsert ==
    LawIs("delete_insert") =>
        /\ text = law[1].text
        /\ ByteLen(text) = ByteLen(law[1].text)

\* A backward selection was deleted and its text put back.
C13_Witness ==
    /\ LawIs("delete_insert")
    /\ law[1].anchor > law[1].head
    /\ law[1].removed # << >>
    /\ text = law[1].text

\* C14: is_forward() is true exactly when anchor <= head and is_backward()
\* is its negation; flip_forward() leaves the selection forward with the
\* same two ends, and applying it a second time changes nothing.
C14_Orientation ==
    /\ (LawIs("flip_forward") \/ LawIs("flip_forward_twice")) =>
           /\ law[1].is_forward = (law[1].anchor <= law[1].head)
           /\ law[1].is_backward = ~law[1].is_forward
           /\ anchor <= head
           /\ {anchor, head} = {law[1].anchor, law[1].head}
    /\ LawIs("flip_forward_twice") => <<anchor, head>> = law[1].once

\* A backward selection was flipped forward, and flip_forward applied once
\* more.
C14_Witness ==
    /\ LawIs("flip_forward_twice")
    /\ law[1].anchor > law[1].head
    /\ law[1].is_backward
    /\ anchor = law[1].head
    /\ head = law[1].anchor

\* The keys of GotoKeys that Goto mode does not bind.
C15_UnboundKeys ==
    {Char("NONE", <<"z">>), Char("SHIFT", <<"K">>), Char("CONTROL", <<"k">>),
     Code("NONE", "Enter")}

\* C15: Goto is transient: a key handled in Goto mode, bound or not, leaves
\* the mode at Normal; a key that is not a Goto binding sets the status to
\* the error "Unknown key" and leaves buffer and selection unchanged.
C15_GotoTransient ==
    [][\A k \in GotoKeys :
         (KeyGoto(k) /\ run' = "loop") =>
           /\ mode' = "Normal"
           /\ k \in C15_UnboundKeys =>
                /\ message' = Some(Err("Unknown key"))
                /\ text' = text
                /\ anchor' = anchor
                /\ head' = head
                /\ modified' = modified]_vars

\* An unbound key was pressed in Goto mode.
C15_Witness ==
    /\ mode = "Normal"
    /\ message = Some(Err("Unknown key"))
    /\ run = "loop"

\* The events that run one of the operations said to clear the cache:
\* extend_left/right and move_left/right, extend_line_start/end, insert,
\* delete, delete_before, flip, goto-buffer-start, pointer presses and
\* drags.
C16_ClearingStep ==
    \/ \E k \in {Char("NONE", <<"h">>), Char("NONE", <<"l">>),
                 Char("SHIFT", <<"H">>), Char("SHIFT", <<"L">>),
                 Char("NONE", <<"d">>), Char("NONE", <<"c">>),
                 Char("ALT", <<";">>)} : KeyNormal(k)
    \/ \E k \in {Char("NONE", <<"k">>), Char("NONE", <<"h">>), Char("NONE", <<"l">>),
                 Char("SHIFT", <<"H">>), Char("SHIFT", <<"L">>)} : KeyGoto(k)
    \/ \E k \in {Char("NONE", c) : c \in TextChars}
                \cup {Code("NONE", "Enter"), Code("NONE", "Backspace"),
                      Char("CONTROL", <<"b">>), Char("CONTROL", <<"f">>)} : KeyInsert(k)
    \/ \E m \in {n \in MouseEvents : n.kind \in {"Down", "Drag"}} : Mouse(m)

\* C16: every operation that changes the head's horizontal position, edits
\* the text or resets the selection clears the desired-column cache: after
\* such an operation has changed text, anchor or head, the cache is unset.
C16_CacheCleared ==
    [][(/\ C16_ClearingStep
        /\ run' = "loop"
        /\ <<text, anchor, head>>' # <<text, anchor, head>>)
       => desired_column' = None]_vars

\* C17: in every reachable state the vertical scroll line index lies in
\* 0..max(0, line count - 1).
C17_ScrollClamped ==
    run = "loop" =>
        vertical_scroll >= 0 /\ vertical_scroll <= Max(0, LineLen(text) - 1)

\* The boundary just after the grapheme at the boundary o; o itself at the
\* end of the buffer.
BoundaryAfter(t, o) ==
    IF o < ByteLen(t) THEN Unwrap(next_grapheme_boundary(t, o)) ELSE o

\* C18: a primary-button press inside the text area, at the cell of offset
\* o, leaves a forward selection that covers exactly the clicked grapheme:
\* anchor = o and head is the boundary just after the grapheme at o,
\* whatever the orientation of the selection before the press.
C18_PrimaryPress ==
    [][\A m \in {n \in MouseEvents : n.kind = "Down" /\ n.button = "Left"} :
         LET at == position_to_byte_offset(text, vertical_scroll,
                                           Areas(text, Area).text,
                                           [x |-> m.column, y |-> m.row])
         IN  (Mouse(m) /\ run' = "loop" /\ IsSome(at)) =>
               /\ anchor' = at[1]
               /\ head' = BoundaryAfter(text, at[1])]_vars

\* C19: in every mode a secondary-button press or a drag leaves anchor,
\* buffer, modified flag, mode and command line unchanged; inside the text
\* area the new head is the clicked offset when the selection was backward
\* and the boundary after it otherwise, so it depends only on the clicked
\* position, the buffer, the scroll and the prior orientation; outside the
\* text area head is unchanged as well.
C19_SecondaryOrDrag ==
    (/\ LawIs("pointer")
     /\ \/ law[1].event.kind = "Down" /\ law[1].event.button = "Right"
        \/ law[1].event.kind = "Drag")
    => LET before == law[1].before
           at == position_to_byte_offset(
                     before.text, before.vertical_scroll,
                     Areas(before.text, Area).text,
                     [x |-> law[1].event.column, y |-> law[1].event.row])
       IN  /\ run = "loop"
           /\ anchor = before.anchor
           /\ text = before.text
           /\ modified = before.modified
           /\ mode = before.mode
           /\ command = before.command
           /\ command_cursor = before.command_cursor
           /\ head = IF at = None THEN before.head
                     ELSE IF before.anchor > before.head THEN at[1]
                     ELSE ceil_grapheme_boundary(before.text, at[1] + 1)

\* A drag in Command mode moved head and nothing else.
C19_Witness ==
    /\ LawIs("pointer")
    /\ law[1].event.kind = "Drag"
    /\ law[1].before.mode = "Command"
    /\ mode = "Command"
    /\ head # law[1].before.head
    /\ anchor = law[1].before.anchor

\* C20: for a grapheme boundary o that byte_offset_to_area maps to a
\* rectangle, position_to_byte_offset of the rectangle's top-left position
\* is o again, when the rectangle has a non-zero width (the end-of-buffer
\* cell included) or o is at a line break.
C20_RoundTrip ==
    (/\ LawIs("locate")
     /\ IsSome(law[1].rect)
     /\ \/ law[1].rect[1].width > 0
        \/ law[1].o < ByteLen(text) /\ text[law[1].o + 1] = "\n")
    => law[1].back = Some(law[1].o)

\* The end-of-buffer cell of a buffer whose last line is not empty maps
\* back to the end of the buffer.
C20_Witness ==
    /\ LawIs("locate")
    /\ law[1].o = ByteLen(text)
    /\ law[1].o > ByteOfLine(text, LineOfByte(text, law[1].o))
    /\ IsSome(law[1].rect)
    /\ law[1].rect[1].width = 1
    /\ law[1].back = Some(law[1].o)

\* C20 as stated: every boundary that maps to a rectangle maps back to
\* itself.
C20_RoundTripAsStated ==
    (LawIs("locate") /\ IsSome(law[1].rect))
    => law[1].back = Some(law[1].o)

\* The buffer row and the text column under the recorded pointer position.
ClickRow == (law[1].pos.y - Areas(text, Area).text.y) + vertical_scroll
ClickColumn == law[1].pos.x - Areas(text, Area).text.x

\* The graphemes of line row that are drawn over column col.
CellsOver(t, row, col) ==
    LET gs == Graphemes(Line(t, row))
    IN  {i \in 1..Len(gs) :
           /\ SumWidths(SubSeq(gs, 1, i - 1)) <= col
           /\ col < SumWidths(SubSeq(gs, 1, i))}

\* C21: for a position p of the text area, byte_offset_to_area of
\* position_to_byte_offset(p) is a rectangle that contains p whenever a
\* grapheme of the buffer is drawn over p (any column of a wide grapheme
\* included); a position on a row past the last line maps to the end of the
\* buffer, and a position past the end of a line maps to the end of that
\* line.
C21_ClickRoundTrip ==
    (LawIs("click") /\ RectContains(Areas(text, Area).text, law[1].pos))
    => /\ IsSome(law[1].off)
       /\ (ClickRow < LineLen(text) /\ CellsOver(text, ClickRow, ClickColumn) # {})
            => /\ IsSome(law[1].rect)
               /\ RectContains(law[1].rect[1], law[1].pos)
       /\ ClickRow >= LineLen(text) => law[1].off[1] = ByteLen(text)
       /\ (ClickRow < LineLen(text)
             /\ ClickColumn >= DisplayWidth(Line(text, ClickRow)))
            => law[1].off[1] = LineEndFrom(text, ByteOfLine(text, ClickRow))

\* The second column of a wide grapheme was clicked and its rectangle, two
\* columns wide, contains the position.
C21_Witness ==
    /\ LawIs("click")
    /\ ClickRow < LineLen(text)
    /\ CellsOver(text, ClickRow, ClickColumn) # {}
    /\ IsSome(law[1].rect)
    /\ law[1].rect[1].width = 2
    /\ law[1].pos.x = law[1].rect[1].x + 1
    /\ RectContains(law[1].rect[1], law[1].pos)

\* C22: in every reachable state whose mode is not Command the command
\* line is empty and its cursor is 0, and every step that enters Command
\* mode starts it with an empty command line and cursor 0.
C22_CommandSubState ==
    /\ [](mode # "Command" => command = << >> /\ command_cursor = 0)
    /\ [][(mode # "Command" /\ mode' = "Command")
            => command' = << >> /\ command_cursor' = 0]_vars

\* The command line "q" was run by the last event: the mode is Normal again
\* and the command line is empty.
C22_Witness ==
    /\ confirmed # None
    /\ confirmed[1].line = <<"q">>
    /\ mode = "Normal"
    /\ command = << >>
    /\ command_cursor = 0

\* C23: the status message does not outlive the next event: after every
\* key, mouse or other event handled by update, in every mode, a message is
\* present only if that event set it, by running a command line or as the
\* unknown key of Goto mode; a message set by the event before is gone.
C23_MessageCleared ==
    [][message' # None
         => \/ confirmed' # None
            \/ mode = "Goto" /\ mode' = "Normal" /\ message = None]_vars

\* A message is shown and the loop goes on to the next event.
C23_Witness ==
    /\ message # None
    /\ Running
    /\ mode = "Normal"

\* The step is key k handled in Normal mode and update returned.
NormalKeyStep(mods, c) == KeyNormal(Char(mods, <<c>>)) /\ run' = "loop"

\* C24: Normal is the initial mode, and on key events that update returns
\* from: in Normal mode i reduces the selection and enters Insert, c
\* deletes the selection and enters Insert, : enters Command with an empty
\* command line, g enters Goto; in Insert mode Esc enters Normal; in
\* Command mode Enter runs the command line and enters Normal and Esc
\* enters Normal; every step that changes the mode away from Normal or
\* Insert is one of these.
C24_ModeTransitions ==
    /\ mode = "Normal"
    /\ [][/\ NormalKeyStep("NONE", "i")
               => mode' = "Insert" /\ anchor' = head /\ head' = head
                    /\ text' = text
          /\ NormalKeyStep("NONE", "c")
               => /\ mode' = "Insert"
                  /\ text' = RopeDelete(text, Min(anchor, head), Max(anchor, head))
                  /\ anchor' = Min(anchor, head) /\ head' = Min(anchor, head)
          /\ NormalKeyStep("NONE", ":")
               => mode' = "Command" /\ command' = << >> /\ command_cursor' = 0
          /\ NormalKeyStep("NONE", "g") => mode' = "Goto"
          /\ KeyInsert(Code("NONE", "Esc")) => mode' = "Normal"
          /\ (run' = "loop" /\ \E io \in IoOutcomes :
                 KeyCommand(Code("NONE", "Enter"), io, MaxEditCmdLen))
               => mode' = "Normal" /\ confirmed' # None
          /\ KeyCommand(Code("NONE", "Esc"), "ok", MaxEditCmdLen)
               => mode' = "Normal" /\ confirmed' = None
          /\ (mode = "Normal" /\ mode' # "Normal")
               => \/ mode' = "Insert" /\ \/ NormalKeyStep("NONE", "i")
                                         \/ NormalKeyStep("NONE", "c")
                  \/ mode' = "Command" /\ NormalKeyStep("NONE", ":")
                  \/ mode' = "Goto" /\ NormalKeyStep("NONE", "g")
          /\ (mode = "Insert" /\ mode' # "Insert")
               => mode' = "Normal" /\ KeyInsert(Code("NONE", "Esc"))]_vars

\* Command mode entered over a buffer that Insert mode has typed into:
\* Normal to Insert, back to Normal, and on to Command.
C24_Witness ==
    /\ mode = "Command"
    /\ text # << >>
    /\ command = << >>
    /\ run = "loop"

\* The step is a key without a binding in its mode: z or Esc in Normal
\* mode, Left in Insert mode, Up in Command mode.
C25_UnboundKeyStep ==
    \/ KeyNormal(Char("NONE", <<"z">>))
    \/ KeyNormal(Code("NONE", "Esc"))
    \/ KeyInsert(Code("NONE", "Left"))
    \/ KeyCommand(Code("NONE", "Up"), "ok", MaxEditCmdLen)

\* C25: a key without a binding in Normal, Insert or Command mode is
\* ignored without error: update returns, sets no status message and
\* leaves buffer, anchor, head, desired column, scroll, mode, command line
\* and cursor, modified flag and exit code as they were.
C25_UnboundIgnored ==
    [][C25_UnboundKeyStep
         => /\ run' = "loop"
            /\ message' = None
            /\ UNCHANGED <<text, anchor, head, desired_column, vertical_scroll,
                           mode, command, command_cursor, modified, exit_code>>]_vars

\* Insert mode over a modified buffer with a cached column: a state that
\* Left, unbound in Insert mode, has to leave exactly as it is.
C25_Witness ==
    /\ mode = "Insert"
    /\ desired_column # None
    /\ modified
    /\ Running

\* C26: the desired column is computed on the first vertical move after it
\* was unset, as the display width between the start of head's line and
\* head, and later vertical moves do not recompute it: after move_down on
\* an editor without a cached column, and after the move_up that follows,
\* the cached column is the column head had before the first move.
C26_ColumnCachedOnce ==
    (LawIs("move_down") \/ LawIs("move_down_up"))
    => desired_column = Some(ColumnOf(text, law[1].head))

\* The end of the longest run of whole graphemes from the start of line
\* line whose display width is at most col.
LineTarget(t, line, col) ==
    LET start == ByteOfLine(t, line)
        end == LineEndFrom(t, start)
        fits == {b \in start..end :
                   /\ IsGraphemeBoundary(t, b)
                   /\ DisplayWidth(ByteSlice(t, start, b)) <= col}
    IN  CHOOSE b \in fits : \A c \in fits : c <= b

\* C27: a vertical move puts head at the start of the target line plus the
\* longest prefix of whole graphemes of that line whose display width does
\* not exceed the desired column, a grapheme that straddles the column
\* excluded: after move_down(n) over n lines of the buffer, and after the
\* move_up(n) back.  With head on the last line move_down puts head at the
\* end of the buffer, and on line 0 move_up leaves head where it is.
C27_LineTransition ==
    LET line == LineOfByte(text, law[1].head)
        column == ColumnOf(text, law[1].head)
        n == law[1].n
    IN  /\ LawIs("move_down") =>
             /\ line + n < LineLen(text) => head = LineTarget(text, line + n, column)
             /\ line + 1 >= LineLen(text) => head = ByteLen(text)
        /\ LawIs("move_down_up") =>
             /\ line + n < LineLen(text) => head = LineTarget(text, line, column)
             /\ (line + 1 >= LineLen(text) /\ LineOfByte(text, ByteLen(text)) = 0)
                  => head = ByteLen(text)

\* From column 1 a step down onto a line that starts with the wide
\* character stopped before it, at column 0.
C27_Witness ==
    /\ LawIs("move_down")
    /\ law[1].n = 1
    /\ ColumnOf(text, law[1].head) = 1
    /\ LineOfByte(text, head) = LineOfByte(text, law[1].head) + 1
    /\ head = ByteOfLine(text, LineOfByte(text, head))
    /\ head + 3 <= ByteLen(text)
    /\ ByteSlice(text, head, head + 3) = Wide

\* C28: extend_line_start sets head to the start of head's line and
\* extend_line_end sets head to the end of that line, its line break
\* excluded, for every head (at the end of the buffer and after a trailing
\* line break too) and either orientation; anchor is unchanged.  The two
\* are the keys H and L of Goto mode.
C28_ExtendLine ==
    [][/\ KeyGoto(Char("SHIFT", <<"H">>))
            => /\ run' = "loop"
               /\ head' = ByteOfLine(text, LineOfByte(text, head))
               /\ anchor' = anchor
       /\ KeyGoto(Char("SHIFT", <<"L">>))
            => /\ run' = "loop"
               /\ head' = LineEndFrom(text, ByteOfLine(text, LineOfByte(text, head)))
               /\ anchor' = anchor]_vars

C30_PrevNext ==
    LawIs("neighbours")
    => LET x == law[1].x
           prev == law[1].prev
           next == law[1].next
       IN  /\ x = 0 <=> prev = None
           /\ x > ByteLen(text) => prev = Some(ByteLen(text))
           /\ prev # None
                => /\ prev[1] \in Boundaries(text)
                   /\ prev[1] < x
                   /\ \A b \in Boundaries(text) : ~(prev[1] < b /\ b < x)
           /\ x >= ByteLen(text) <=> next = None
           /\ next # None
                => /\ next[1] \in Boundaries(text)
                   /\ next[1] > x
                   /\ \A b \in Boundaries(text) : ~(x < b /\ b < next[1])

\* From the middle of a wide character, which is no boundary, the two
\* neighbours are its start and its end.
C30_Witness ==
    /\ LawIs("neighbours")
    /\ law[1].x \notin Boundaries(text)
    /\ law[1].x < ByteLen(text)
    /\ law[1].prev = Some(law[1].x - 1)
    /\ law[1].next = Some(law[1].x + 2)
    /\ ByteSlice(text, law[1].x - 1, law[1].x + 2) = Wide

\* C31: delete() removes exactly the bytes from min(anchor, head) up to,
\* not including, max(anchor, head): the bytes before and after them are
\* what is left, in their order; anchor and head are both min(anchor, head)
\* and modified is true.
C31_Delete ==
    LawIs("delete")
    => LET start == Min(law[1].anchor, law[1].head)
           end == Max(law[1].anchor, law[1].head)
       IN  /\ text = SubSeq(law[1].text, 1, start)
                       \o SubSeq(law[1].text, end + 1, Len(law[1].text))
           /\ anchor = start
           /\ head = start
           /\ modified

\* A backward selection in the middle of the buffer was deleted: bytes
\* remain on both sides of the removed range.
C31_Witness ==
    /\ LawIs("delete")
    /\ law[1].head < law[1].anchor
    /\ law[1].head > 0
    /\ law[1].anchor < Len(law[1].text)
    /\ Len(text) = Len(law[1].text) - (law[1].anchor - law[1].head)
    /\ head = law[1].head
    /\ modified

\* The text t without its bytes from..to-1.
Without(t, from, to) == SubSeq(t, 1, from) \o SubSeq(t, to + 1, Len(t))

\* C32: delete_before() removes the one grapheme cluster that ends at head,
\* puts head on its start and collapses the selection there; delete_after()
\* removes the one cluster that starts at head and leaves head where it
\* is; both set modified.  With head at the start (delete_before) or at
\* the end (delete_after) of the buffer, buffer, selection and modified
\* flag stay as they were.
C32_DeleteBeside ==
    /\ LawIs("delete_before") =>
         LET before == {b \in Boundaries(law[1].text) : b < law[1].head}
             start == CHOOSE b \in before : \A c \in before : c <= b
         IN  IF law[1].head = 0
             THEN /\ text = law[1].text
                  /\ anchor = law[1].anchor /\ head = law[1].head
                  /\ modified = law[1].modified
             ELSE /\ text = Without(law[1].text, start, law[1].head)
                  /\ head = start /\ anchor = start
                  /\ modified
    /\ LawIs("delete_after") =>
         LET after == {b \in Boundaries(law[1].text) : b > law[1].head}
             end == CHOOSE b \in after : \A c \in after : b <= c
         IN  IF law[1].head = Len(law[1].text)
             THEN /\ text = law[1].text
                  /\ anchor = law[1].anchor /\ head = law[1].head
                  /\ modified = law[1].modified
             ELSE /\ text = Without(law[1].text, law[1].head, end)
                  /\ head = law[1].head
                  /\ modified

\* delete_before() took a letter with its combining mark, three bytes,
\* from before head.
C32_Witness ==
    /\ LawIs("delete_before")
    /\ law[1].head >= 3
    /\ head = law[1].head - 3
    /\ anchor = head
    /\ SubSeq(law[1].text, head + 1, head + 3) = <<"a">> \o Acute
    /\ Len(text) = Len(law[1].text) - 3

\* The buffer as it was at startup or at the last write that succeeded:
\* the content of the file, or nothing when there is no file.
SavedContent == IF disk = None THEN << >> ELSE disk[1]

\* C33: while the editor runs, modified is false only if the buffer equals
\* its content at startup or at the last successful save; every step that
\* changes the buffer sets modified, and only a command line that wrote the
\* buffer to the editor's path resets it.
C33_Modified ==
    /\ []((run = "loop" /\ ~modified) => text = SavedContent)
    /\ [][/\ text' # text => modified'
          /\ (modified /\ ~modified')
               => /\ confirmed' # None
                  /\ path # None
                  /\ disk' = Some(text)
                  /\ text' = text]_vars

\* An edited buffer was written to its file: it differs from the file the
\* editor was opened on and is not modified.
C33_Witness ==
    /\ path # None
    /\ confirmed # None
    /\ ~modified
    /\ text # << >>
    /\ text # ExistingFile
    /\ disk = Some(text)
    /\ run = "loop"

\* C34: in every reachable state in Command mode the command cursor lies
\* in 0..length of the command line and is a grapheme boundary of it.
C34_CursorOnBoundary ==
    mode = "Command"
    => /\ command_cursor \in 0..Len(command)
       /\ IsGraphemeBoundary(command, command_cursor)

\* The step is Backspace handled in Command mode.
CommandBackspaceStep == KeyCommand(Code("NONE", "Backspace"), "ok", MaxCmdLen)

\* C35: in Command mode Backspace with the cursor after at least one
\* grapheme removes exactly the grapheme cluster that ends at the cursor
\* and puts the cursor on its start, staying in Command mode; on an empty
\* command line it leaves for Normal mode; with the cursor at 0 of a
\* non-empty line it changes nothing.
C35_CommandBackspace ==
    [][CommandBackspaceStep
        => LET before == {b \in Boundaries(command) : b < command_cursor}
               start == CHOOSE b \in before : \A c \in before : c <= b
               whole == {b \in Boundaries(command) : 0 < b /\ b <= command_cursor}
           IN  IF whole # {}
               THEN /\ run' = "loop"
                    /\ mode' = "Command"
                    /\ command_cursor \in Boundaries(command)
                    /\ command' = Without(command, start, command_cursor)
                    /\ command_cursor' = start
               ELSE IF command = << >>
               THEN mode' = "Normal" /\ command' = << >> /\ command_cursor' = 0
               ELSE command_cursor = 0
                      => UNCHANGED <<command, command_cursor, mode>>]_vars

\* C36: the Editor of src/editor.rs and the Editor of src/main.rs agree:
\* after every step of every sequence of shared operations from new(), both
\* hold the same anchor, the same head and the same buffer (as long as both
\* are running).
C36_TwinsAgree == run = "loop" /\ Lib.run = "loop" => TwinsAgree

====
